---- MODULE Spec2Model ----
(***************************************************************************)
(* FluexGL: the WebGPURenderer (device acquisition, frame protocol,        *)
(* Render), the WebGPURendererScene (renderable list, Prepare), the parts  *)
(* of Camera and Renderable they call, the geometries' GPU buffers and the *)
(* Thread frame scheduler, as a state machine.                             *)
(*                                                                         *)
(* Every public method is one action.  An async method is one action per   *)
(* stretch of code between two awaits: the code runs on one event loop, so *)
(* such a stretch is atomic and other calls interleave only at the awaits. *)
(* Calls into the WebGPU API and into the diagnostics sink are effects;    *)
(* fx holds the effects of the most recent step, in the order the code     *)
(* issued them.                                                            *)
(***************************************************************************)
EXTENDS Integers, Sequences, FiniteSets, TLC

\* Bounds of the model.
MaxDevices == 2         \* devices the platform hands out in one run
MaxFrames == 2          \* frame sessions BeginFrame hands to the caller
MaxEndCalls == 2        \* EndFrame calls on one session
MaxRenderables == 2     \* length of the scene's list
MaxRebuilds == 3        \* rebuilds of the render targets before the caller stops resizing
MaxInitializes == 2     \* Initialize calls that reach createBuffer, per geometry
MaxDisposes == 2        \* destroy() calls on one buffer
MaxListeners == 2       \* listeners registered with a Thread at one time
MaxWrappers == 2        \* Thread.Once calls
MaxFrameRequests == 3   \* window.requestAnimationFrame calls
MaxClock == 6000        \* the latest time, in ms after the Thread's construction
MaxResizeListeners == 1 \* "resize" listeners SetCanvasSizeRelativeToWindow registers
MaxCoordinate == 2      \* the largest |x|, |y|, |z| the arithmetic of Vector3 may leave

Renderables == {"r1", "r2"}            \* objects with isRenderable = true
Objects == Renderables \cup {"junk"}   \* "junk": isRenderable = false
Cameras == {"camA", "camB"}           \* PerspectiveCamera objects
\* Vector3 objects: the position and the target each Camera constructs, and one the
\* caller constructs.
Vectors == {"camA.position", "camA.target", "camB.position", "camB.target", "v"}
InitCalls == {1, 2}                    \* WebGPURenderer.Initialize calls that may overlap
MainCalls == {1}

VARIABLES
    navigatorGpu,    \* the platform: navigator.gpu is present
    platform,        \* the platform: window.devicePixelRatio, the canvas's client size,
                     \* and whether canvas.getContext("webgpu") returns a context
    options,         \* WebGPURenderer.options, as given to the constructor
    window,          \* window: innerWidth, innerHeight, and the margins of the "resize"
                     \* listeners SetCanvasSizeRelativeToWindow registered, in order
    size,            \* WebGPURenderer: devicePixelRatio, width, height, canvas size
    logicalSize,     \* the width and height the latest SetSize call was given, <<>>: none
    textures,        \* every texture the renderer created, in order of creation
    targets,         \* WebGPURenderer.depthTexture, .msaaTexture: positions in textures
    hasInitialized,  \* WebGPURenderer.hasInitialized
    gpuAdapter,      \* WebGPURenderer.gpuAdapter is set
    gpuDevice,       \* WebGPURenderer.gpuDevice: 0 (undefined) or a device id
    context,         \* WebGPURenderer.context: "undef" or "ok"
    contextDevice,   \* the device the canvas context is configured with, 0: none
    depthTexture,    \* the device the depth texture was created on, 0: none
    nDevices,        \* devices acquired so far: they are 1..nDevices
    lost,            \* devices whose lost promise has resolved
    initCalls,       \* per Initialize call: where it is suspended, what it requested
    frames,          \* the sessions BeginFrame returned, in order
    rendererables,   \* WebGPURendererScene.rendererables
    hasPrepared,     \* WebGPURendererScene.hasPrepared
    init,            \* per Renderable: state of its Initialize
    pipeline,        \* per Renderable, a SimpleTriangle: its pipeline is assigned
    camBinding,      \* per Camera: the device its bind group was created on, 0: none
    camBuffer,       \* per Camera: the device its uniform buffer was created on, 0: none
    pose,            \* per Camera: position, target, lens and the matrices
    vec,             \* per Vector3 object: its x, y, z
    prep,            \* the Prepare call in flight
    buffers,         \* every GPUBuffer the geometries created, in order of creation
    triangle,        \* a SimpleTriangle: its pipeline (the device it was created on),
                     \* its vertexBuffer, its Initialize in flight
    cube,            \* a CubeGeometry: its vertexBuffer, indexBuffer, uniformBuffer
    clock,           \* Date.now(), in ms after the Thread's construction
    thread,          \* a Thread: its fields
    raf,             \* window: the frame callbacks requested and those still pending
    wrappers,        \* the wrapper functions Thread.Once created, in order of creation
    bounced,         \* the state of the "bounce" callback: it has run its body
    fx               \* the effects of the most recent step

vars == <<navigatorGpu, platform, options, window, size, logicalSize, textures, targets, hasInitialized, gpuAdapter, gpuDevice, context, contextDevice,
          depthTexture, nDevices, lost, initCalls, frames, rendererables, hasPrepared,
          init, pipeline, camBinding, camBuffer, pose, vec, prep, buffers, triangle, cube,
          clock, thread, raf, wrappers, bounced, fx>>

envVars == <<navigatorGpu, platform, options, window>>
targetVars == <<size, logicalSize, textures, targets, depthTexture>>
rendererVars == <<hasInitialized, gpuAdapter, gpuDevice, context, contextDevice,
                  nDevices, targetVars>>
cameraVars == <<camBinding, camBuffer, pose, vec>>
sceneVars == <<rendererables, hasPrepared, init, pipeline, cameraVars, prep>>
geometryVars == <<buffers, triangle, cube>>
threadVars == <<clock, thread, raf, wrappers, bounced>>
graphicsVars == <<envVars, rendererVars, lost, initCalls, frames, sceneVars>>

----------------------------------------------------------------------------
\* Effects.

\* One call into the WebGPU API or the diagnostics sink: what, on what, and a number
\* (a device id or a byte offset).
Ev(e, a, n) == [e |-> e, a |-> a, n |-> n]

DebugError(code) == Ev("error", code, 0)

Fx(op, ret, log) == [op |-> op, ret |-> ret, log |-> log]

Events(log, e) == SelectSeq(log, LAMBDA x : x.e = e)

Count(log, e) == Len(Events(log, e))

\* The position of the first event e in log, 0 when there is none.
FirstAt(log, e) ==
    IF \E i \in DOMAIN log : log[i].e = e
    THEN CHOOSE i \in DOMAIN log : log[i].e = e /\ \A j \in 1..(i - 1) : log[j].e # e
    ELSE 0

\* The position of the last event e in log, 0 when there is none.
LastAt(log, e) ==
    IF \E i \in DOMAIN log : log[i].e = e
    THEN CHOOSE i \in DOMAIN log : log[i].e = e /\ \A j \in (i + 1)..Len(log) : log[j].e # e
    ELSE 0

\* A JavaScript number that need not be whole, as the fraction n / d with d > 0.
Ratio(n, d) == [n |-> n, d |-> d]

\* r >= k, for a whole k.
AtLeast(r, k) == r.n >= k * r.d

\* Math.floor(w * r).
FloorTimes(w, r) == (w * r.n) \div r.d

Max(a, b) == IF a >= b THEN a ELSE b

\* o ?? d, for an option o that is absent (<<>>) or present (<<v>>).
OrElse(o, d) == IF o = <<>> THEN d ELSE o[1]

\* window.devicePixelRatio || 1.
PlatformRatio ==
    IF platform.devicePixelRatio.n = 0 THEN Ratio(1, 1) ELSE platform.devicePixelRatio

\* a + b, a < b and Math.max(a, b) for two fractions.
Plus(a, b) == Ratio(a.n * b.d + b.n * a.d, a.d * b.d)
Less(a, b) == a.n * b.d < b.n * a.d
MaxOf(a, b) == IF Less(a, b) THEN b ELSE a

\* The matrices of gl-matrix, each as the call that filled it.
LookAt(eye, center, up) == [eye |-> eye, center |-> center, up |-> up]
Perspective(degrees, aspect, near, far) ==
    [fovy |-> degrees, aspect |-> aspect, near |-> near, far |-> far]
Multiply(a, b) == [left |-> a, right |-> b]

\* Camera.up, which no method changes.
Up == <<0, 1, 0>>

\* updateMatrices for a camera p, the Vector3 objects being as in heap.
UpdateMatrices(p, heap) ==
    LET v == LookAt(heap[p.position], heap[p.target], Up)
        pr == Perspective(p.fieldOfViewDegrees, p.aspect, p.near, p.far)
    IN  [p EXCEPT !.view = v, !.projection = pr, !.viewProjection = Multiply(pr, v)]

\* new PerspectiveCamera(), named c.
NewCamera(c, heap) ==
    UpdateMatrices([position |-> IF c = "camA" THEN "camA.position" ELSE "camB.position",
                    target |-> IF c = "camA" THEN "camA.target" ELSE "camB.target",
                    fieldOfViewDegrees |-> 60, aspect |-> Ratio(1, 1),
                    near |-> Ratio(1, 10), far |-> Ratio(1000, 1),
                    view |-> <<>>, projection |-> <<>>, viewProjection |-> <<>>], heap)

IdleCall == [pc |-> "idle", adapterRequests |-> 0, deviceRequests |-> 0]
IdlePrep == [pc |-> "idle", idx |-> 0, amount |-> 0, cam |-> "camA", cur |-> "r1",
             scoped |-> FALSE, detached |-> FALSE, arr |-> <<>>]

\* new SimpleTriangle(), new CubeGeometry(): the pipeline and the buffer fields are
\* undefined (0).
NewTriangle == [pc |-> "idle", device |-> 0, pipeline |-> 0, vertexBuffer |-> 0]
NewCube == [vertexBuffer |-> 0, indexBuffer |-> 0, uniformBuffer |-> 0]

\* The field initializers of Thread.
DefaultSimulationUpdateRate == 60
DefaultMaxDeltaMs == 250

\* new Thread() at time now.
NewThread(now) ==
    [simulationUpdateRate |-> DefaultSimulationUpdateRate,
     frameRate |-> 0,
     deltaTime |-> Ratio(0, 1),
     currentRegisteredTimestamp |-> now,
     lastRegisteredTimestamp |-> now,
     startTimestamp |-> now,
     events |-> [idle |-> <<>>, start |-> <<>>, stop |-> <<>>, update |-> <<>>],
     isActive |-> FALSE,
     animationFrame |-> 0,
     times |-> <<>>,
     maxDeltaMs |-> DefaultMaxDeltaMs]

\* The constructor's defaults for the canvas.
DefaultCanvasWidth == 800
DefaultCanvasHeight == 600

\* The window the page opens with, 5 by 3: no "resize" listener yet.
NewWindow == [innerWidth |-> 5, innerHeight |-> 3, resize |-> <<>>]

\* The state the constructors leave, given the platform and the options, the Thread's
\* registry apart.
ConstructedRenderer ==
    /\ window = NewWindow
    /\ size = [devicePixelRatio |-> PlatformRatio, width |-> 0, height |-> 0,
               canvasWidth |-> OrElse(options.canvasWidth, DefaultCanvasWidth),
               canvasHeight |-> OrElse(options.canvasHeight, DefaultCanvasHeight)]
    /\ logicalSize = <<>>
    /\ textures = <<>>
    /\ targets = [depth |-> 0, msaa |-> 0]
    /\ hasInitialized = FALSE
    /\ gpuAdapter = FALSE
    /\ gpuDevice = 0
    /\ context = "undef"
    /\ contextDevice = 0
    /\ depthTexture = 0
    /\ nDevices = 0
    /\ lost = {}
    /\ initCalls = [k \in InitCalls |-> IdleCall]
    /\ frames = <<>>
    /\ rendererables = <<>>
    /\ hasPrepared = FALSE
    /\ init = [r \in Renderables |-> "none"]
    /\ pipeline = [r \in Renderables |-> FALSE]
    /\ camBinding = [c \in Cameras |-> 0]
    /\ camBuffer = [c \in Cameras |-> 0]
    /\ vec = [v \in Vectors |-> <<0, 0, 0>>]
    /\ pose = [c \in Cameras |-> NewCamera(c, vec)]
    /\ prep = IdlePrep
    /\ buffers = <<>>
    /\ triangle = NewTriangle
    /\ cube = NewCube
    /\ clock = 0
    /\ raf = [requested |-> 0, pending |-> {}]
    /\ bounced = FALSE
    /\ fx = Fx("new", "none", <<>>)

\* The state the constructors leave: no listener is registered.
Constructed ==
    /\ ConstructedRenderer
    /\ thread = NewThread(0)
    /\ wrappers = <<>>

\* new WebGPURenderer() with no options, on a platform with ratio 1 and a canvas that
\* is not laid out.
Init ==
    /\ navigatorGpu \in BOOLEAN
    /\ platform = [devicePixelRatio |-> Ratio(1, 1), clientWidth |-> 0, clientHeight |-> 0,
                   webgpuContext |-> TRUE]
    /\ options = [canvasWidth |-> <<>>, canvasHeight |-> <<>>,
                  msaaSampleCount |-> <<>>, devicePixelRatio |-> <<>>]
    /\ Constructed

----------------------------------------------------------------------------
\* WebGPURenderer: size and render targets.

\* Math.max(1, Math.min(ratio || 1, 100)), for ratio > 0.
ClampRatio(r) ==
    IF ~AtLeast(r, 1) THEN Ratio(1, 1)
    ELSE IF AtLeast(r, 100) THEN Ratio(100, 1)
    ELSE r

DebugWarn(code) == Ev("warn", code, 0)

\* getMsaa handing on whatever sample count is configured.
GetMsaaUnchecked == OrElse(options.msaaSampleCount, 1)

\* getMsaa: the sample count the render targets are allocated with.
GetMsaa ==
    LET n == OrElse(options.msaaSampleCount, 1)
    IN IF n \in {1, 2, 4, 8} THEN n ELSE 1

\* The renderer's size, textures and targets, with the calls made on the way to them.
TargetState ==
    [size |-> size, logicalSize |-> logicalSize, textures |-> textures,
     targets |-> targets, log |-> <<>>]

Texture(kind, dev, w, h, n) ==
    [kind |-> kind, dev |-> dev, width |-> w, height |-> h, sampleCount |-> n,
     destroyed |-> FALSE]

\* createOrResizeTargets allocating without destroying what it replaces.
CreateOrResizeTargetsLeaking(t, dev) ==
    LET w == Max(1, t.size.width)
        h == Max(1, t.size.height)
        msaa == GetMsaa
        d == Len(t.textures) + 1
    IN  IF dev = 0
        THEN t
        ELSE IF msaa > 1
        THEN [t EXCEPT !.textures = @ \o <<Texture("depth", dev, w, h, msaa),
                                           Texture("msaa", dev, w, h, msaa)>>,
                       !.targets = [depth |-> d, msaa |-> d + 1],
                       !.log = @ \o <<Ev("createTexture", "depth", d),
                                      Ev("createTexture", "msaa", d + 1)>>]
        ELSE [t EXCEPT !.textures = Append(@, Texture("depth", dev, w, h, msaa)),
                       !.targets = [depth |-> d, msaa |-> 0],
                       !.log = @ \o <<Ev("createTexture", "depth", d)>>]

\* createOrResizeTargets, with gpuDevice = dev (0: undefined).
CreateOrResizeTargets(t, dev) ==
    LET old == {t.targets.depth, t.targets.msaa} \ {0}
        swept == [i \in DOMAIN t.textures |->
                    IF i \in old THEN [t.textures[i] EXCEPT !.destroyed = TRUE]
                    ELSE t.textures[i]]
        sweepLog == (IF t.targets.depth # 0
                     THEN <<Ev("destroyTexture", "depth", t.targets.depth)>> ELSE <<>>)
                    \o (IF t.targets.msaa # 0
                        THEN <<Ev("destroyTexture", "msaa", t.targets.msaa)>> ELSE <<>>)
        w == Max(1, t.size.width)
        h == Max(1, t.size.height)
        msaa == GetMsaa
        d == Len(swept) + 1
    IN  IF dev = 0
        THEN [t EXCEPT !.textures = swept, !.log = @ \o sweepLog]
        ELSE IF msaa > 1
        THEN [t EXCEPT !.textures = swept \o <<Texture("depth", dev, w, h, msaa),
                                               Texture("msaa", dev, w, h, msaa)>>,
                       !.targets = [depth |-> d, msaa |-> d + 1],
                       !.log = @ \o sweepLog \o <<Ev("createTexture", "depth", d),
                                                  Ev("createTexture", "msaa", d + 1)>>]
        ELSE [t EXCEPT !.textures = Append(swept, Texture("depth", dev, w, h, msaa)),
                       !.targets = [depth |-> d, msaa |-> 0],
                       !.log = @ \o sweepLog \o <<Ev("createTexture", "depth", d)>>]

\* SetSize(w, h) without its lower bound of 1.
SetSizeOnUnbounded(t, dev, w, h) ==
    LET cw == FloorTimes(w, t.size.devicePixelRatio)
        ch == FloorTimes(h, t.size.devicePixelRatio)
    IN  CreateOrResizeTargets(
            [t EXCEPT !.size = [devicePixelRatio |-> t.size.devicePixelRatio,
                                width |-> cw, height |-> ch,
                                canvasWidth |-> cw, canvasHeight |-> ch],
                      !.logicalSize = <<w, h>>], dev)

\* SetSize(w, h), with gpuDevice = dev.
SetSizeOn(t, dev, w, h) ==
    LET cw == Max(1, FloorTimes(w, t.size.devicePixelRatio))
        ch == Max(1, FloorTimes(h, t.size.devicePixelRatio))
    IN  CreateOrResizeTargets(
            [t EXCEPT !.size = [devicePixelRatio |-> t.size.devicePixelRatio,
                                width |-> cw, height |-> ch,
                                canvasWidth |-> cw, canvasHeight |-> ch],
                      !.logicalSize = <<w, h>>], dev)

\* applySizeChanges.
ApplySizeChanges(t, dev) ==
    SetSizeOn(t, dev, OrElse(options.canvasWidth, platform.clientWidth),
                      OrElse(options.canvasHeight, platform.clientHeight))

\* SetDevicePixelRatio(ratio), with gpuDevice = dev.
SetDevicePixelRatioOn(t, dev, ratio) ==
    LET warned == [t EXCEPT !.log =
                    @ \o (IF AtLeast(ratio, 2) THEN <<DebugWarn("WGPUR_HIGH_DPR_VALUE")>>
                          ELSE <<>>)
                      \o (IF AtLeast(ratio, 10) THEN <<DebugWarn("WGPUR_HIGH_DPR_VALUE")>>
                          ELSE <<>>)]
    IN  IF ratio.n <= 0
        THEN [warned EXCEPT !.size.devicePixelRatio = PlatformRatio,
                            !.log = @ \o <<DebugError("WGPUR_INVALID_DPR_VALUE")>>]
        ELSE ApplySizeChanges([warned EXCEPT !.size.devicePixelRatio = ClampRatio(ratio)],
                              dev)

\* The rebuilds of the render targets so far that allocated: each created a depth texture.
Rebuilds == Cardinality({i \in DOMAIN textures : textures[i].kind = "depth"})

\* The fields of the renderer take the values of t.
Adopt(t) ==
    /\ size' = t.size
    /\ logicalSize' = t.logicalSize
    /\ textures' = t.textures
    /\ targets' = t.targets
    /\ depthTexture' = IF t.targets.depth = 0 THEN 0 ELSE t.textures[t.targets.depth].dev

\* SetSize(w, h).
SetSize(w, h) ==
    /\ gpuDevice # 0 => Rebuilds < MaxRebuilds
    /\ LET t == SetSizeOn(TargetState, gpuDevice, w, h)
       IN  Adopt(t) /\ fx' = Fx("SetSize", "this", t.log)
    /\ UNCHANGED <<envVars, geometryVars, threadVars, hasInitialized, gpuAdapter, gpuDevice, context, contextDevice,
                   nDevices, lost, initCalls, frames, sceneVars>>

\* SetDevicePixelRatio(ratio).
SetDevicePixelRatio(ratio) ==
    /\ gpuDevice # 0 => Rebuilds < MaxRebuilds
    /\ LET t == SetDevicePixelRatioOn(TargetState, gpuDevice, ratio)
       IN  Adopt(t) /\ fx' = Fx("SetDevicePixelRatio",
                                IF ratio.n <= 0 THEN "null" ELSE "this", t.log)
    /\ UNCHANGED <<envVars, geometryVars, threadVars, hasInitialized, gpuAdapter, gpuDevice, context, contextDevice,
                   nDevices, lost, initCalls, frames, sceneVars>>

\* The "resize" listeners registered with margins[i..], run in order of registration:
\* each calls SetSize(window.innerWidth - margin, window.innerHeight - margin).
RECURSIVE ResizedOn(_, _, _, _, _, _)
ResizedOn(t, dev, w, h, margins, i) ==
    IF i > Len(margins) THEN t
    ELSE ResizedOn(SetSizeOn(t, dev, w - margins[i], h - margins[i]), dev, w, h,
                   margins, i + 1)

\* SetCanvasSizeRelativeToWindow(margin, updateOnResize); the canvas exists from the
\* constructor on, so the WGPUR_CANVAS_NOT_CREATED branch is never taken.
SetCanvasSizeRelativeToWindow(margin, updateOnResize) ==
    /\ gpuDevice # 0 => Rebuilds < MaxRebuilds
    /\ updateOnResize => Len(window.resize) < MaxResizeListeners
    /\ LET t == SetSizeOn(TargetState, gpuDevice, window.innerWidth - margin,
                          window.innerHeight - margin)
       IN  Adopt(t) /\ fx' = Fx("SetCanvasSizeRelativeToWindow", "void", t.log)
    /\ window' = IF updateOnResize THEN [window EXCEPT !.resize = Append(@, margin)]
                 ELSE window
    /\ UNCHANGED <<navigatorGpu, platform, options, geometryVars, threadVars, hasInitialized,
                   gpuAdapter, gpuDevice, context, contextDevice, nDevices, lost, initCalls,
                   frames, sceneVars>>

\* The window is resized to w by h and dispatches "resize" to its listeners.
WindowResize(w, h) ==
    /\ gpuDevice # 0 => Rebuilds + Len(window.resize) <= MaxRebuilds
    /\ window' = [window EXCEPT !.innerWidth = w, !.innerHeight = h]
    /\ LET t == ResizedOn(TargetState, gpuDevice, w, h, window.resize, 1)
       IN  Adopt(t) /\ fx' = Fx("resize", "void", t.log)
    /\ UNCHANGED <<navigatorGpu, platform, options, geometryVars, threadVars, hasInitialized,
                   gpuAdapter, gpuDevice, context, contextDevice, nDevices, lost, initCalls,
                   frames, sceneVars>>

----------------------------------------------------------------------------
\* WebGPURenderer.Initialize, call k.

\* From the call to the first await: the capability check, then requestAdapter.
InitStart(k) ==
    /\ initCalls[k].pc = "idle"
    /\ IF ~navigatorGpu
       THEN /\ initCalls' = [initCalls EXCEPT ![k] = IdleCall]
            /\ fx' = Fx("Initialize", "null", <<DebugError("WGPUR_API_NOT_SUPPORTED")>>)
       ELSE /\ initCalls' = [initCalls EXCEPT ![k] =
                                [pc |-> "adapter", adapterRequests |-> 1,
                                 deviceRequests |-> 0]]
            /\ fx' = Fx("Initialize", "pending", <<Ev("requestAdapter", "", 0)>>)
    /\ UNCHANGED <<envVars, geometryVars, threadVars, rendererVars, lost, frames, sceneVars>>

\* AdapterResolved asking for an adapter once more when it got none.
AdapterResolvedRetrying(k, found) ==
    /\ initCalls[k].pc = "adapter"
    /\ IF ~found /\ initCalls[k].adapterRequests < 2
       THEN /\ initCalls' = [initCalls EXCEPT ![k].adapterRequests = @ + 1]
            /\ gpuAdapter' = gpuAdapter
            /\ fx' = Fx("Initialize.adapter", "pending", <<Ev("requestAdapter", "", 0)>>)
       ELSE IF ~found
       THEN /\ initCalls' = [initCalls EXCEPT ![k].pc = "idle"]
            /\ gpuAdapter' = gpuAdapter
            /\ fx' = Fx("Initialize.adapter", "null",
                        <<DebugError("WGPUR_UNABLE_TO_GET_ADAPTER")>>)
       ELSE /\ initCalls' = [initCalls EXCEPT ![k].pc = "device",
                                              ![k].deviceRequests = @ + 1]
            /\ gpuAdapter' = TRUE
            /\ fx' = Fx("Initialize.adapter", "pending", <<Ev("requestDevice", "", 0)>>)
    /\ UNCHANGED <<envVars, geometryVars, threadVars, hasInitialized, gpuDevice, context, contextDevice,
                   nDevices, targetVars, lost, frames, sceneVars>>

\* requestAdapter resolved (found: with an adapter, else with null), to the next await.
AdapterResolved(k, found) ==
    /\ initCalls[k].pc = "adapter"
    /\ IF ~found
       THEN /\ initCalls' = [initCalls EXCEPT ![k].pc = "idle"]
            /\ gpuAdapter' = gpuAdapter
            /\ fx' = Fx("Initialize.adapter", "null",
                        <<DebugError("WGPUR_UNABLE_TO_GET_ADAPTER")>>)
       ELSE /\ initCalls' = [initCalls EXCEPT ![k].pc = "device",
                                              ![k].deviceRequests = @ + 1]
            /\ gpuAdapter' = TRUE
            /\ fx' = Fx("Initialize.adapter", "pending", <<Ev("requestDevice", "", 0)>>)
    /\ UNCHANGED <<envVars, geometryVars, threadVars, hasInitialized, gpuDevice, context, contextDevice,
                   nDevices, targetVars, lost, frames, sceneVars>>

\* this.canvas.getContext("webgpu"): a context, or null.
GetContext == IF platform.webgpuContext THEN "ok" ELSE "undef"

\* configureContext, with gpuDevice = d: it configures the context it has, or reports
\* that it has none.
ConfigureContextLog(d) ==
    IF GetContext = "ok" THEN <<Ev("configure", "context", d)>>
    ELSE <<DebugError("WGPUR_CONTEXT_UNDEFINED")>>

\* requestDevice settled (ok: resolved with a new device, else rejected), to the end.
DeviceResolved(k, ok) ==
    /\ initCalls[k].pc = "device"
    /\ ok => nDevices < MaxDevices
    /\ IF ~ok
       THEN /\ initCalls' = [initCalls EXCEPT ![k].pc = "idle"]
            /\ fx' = Fx("Initialize.device", "throw", <<>>)
            /\ UNCHANGED rendererVars
       ELSE LET d == nDevices + 1
                ratio == OrElse(options.devicePixelRatio, PlatformRatio)
                t == ApplySizeChanges(SetDevicePixelRatioOn(TargetState, d, ratio), d)
            IN
            /\ initCalls' = [initCalls EXCEPT ![k].pc = "idle"]
            /\ nDevices' = d
            /\ gpuDevice' = d
            /\ context' = GetContext
            /\ contextDevice' = IF GetContext = "ok" THEN d ELSE contextDevice
            /\ Adopt(t)
            /\ hasInitialized' = TRUE
            /\ gpuAdapter' = gpuAdapter
            /\ fx' = Fx("Initialize.device", "this",
                        <<Ev("getContext", "webgpu", 0)>> \o ConfigureContextLog(d)
                        \o t.log)
    /\ UNCHANGED <<envVars, geometryVars, threadVars, lost, frames, sceneVars>>

\* The observer Initialize registers on device.lost: it reports and changes nothing.
DeviceLost(d) ==
    /\ d \in 1..nDevices
    /\ d \notin lost
    /\ lost' = lost \cup {d}
    /\ fx' = Fx("DeviceLost", "void", <<DebugError("WGPUR_DEVICE_LOST_ERROR")>>)
    /\ UNCHANGED <<envVars, geometryVars, threadVars, rendererVars, initCalls, frames, sceneVars>>

----------------------------------------------------------------------------
\* WebGPURenderer: the frame protocol.

\* BeginFrame throws (a TypeError) at its first use of an undefined context.
BeginFrameThrows == context # "ok"

\* BeginFrame: the sample count it chooses the colour attachment by.
FrameMsaa == Max(1, OrElse(options.msaaSampleCount, 1))

\* BeginFrame: the targets after its two checks of the views, and the calls they made.
BeginFrameTargets ==
    LET t1 == IF targets.depth = 0
              THEN CreateOrResizeTargets(TargetState, gpuDevice) ELSE TargetState
    IN  IF FrameMsaa > 1 /\ t1.targets.msaa = 0
        THEN CreateOrResizeTargets(t1, gpuDevice) ELSE t1

\* beginRenderPass: the colour attachment's view ("surface": the current texture of the
\* canvas, "msaa": the multisample texture tex, "undefined"), its resolve target, and the
\* depth texture.
PassEv(view, tex, resolveTarget, depth) ==
    [e |-> "beginRenderPass", a |-> "", n |-> gpuDevice, view |-> view, tex |-> tex,
     resolveTarget |-> resolveTarget, depth |-> depth]

\* BeginFrame: the pass it asks for.
BeginFramePass ==
    LET t == BeginFrameTargets
    IN  IF FrameMsaa > 1
        THEN PassEv(IF t.targets.msaa = 0 THEN "undefined" ELSE "msaa", t.targets.msaa,
                    "surface", t.targets.depth)
        ELSE PassEv("surface", 0, "none", t.targets.depth)

\* beginRenderPass throws (a TypeError) when the colour attachment has no view.
BeginFramePassThrows == BeginFramePass.view = "undefined"

\* BeginFrame: the calls it makes when its context is defined.
BeginFrameLog ==
    <<Ev("getCurrentTexture", "", contextDevice),
      Ev("createCommandEncoder", "", gpuDevice)>>
    \o BeginFrameTargets.log
    \o <<BeginFramePass>>

\* EndFrame: the calls it makes.
EndFrameLog == <<Ev("passEnd", "", 0), Ev("submit", "", gpuDevice)>>

BeginFrame ==
    /\ Len(frames) < MaxFrames
    /\ BeginFrameTargets.textures # textures => Rebuilds < MaxRebuilds
    /\ IF BeginFrameThrows
       THEN /\ fx' = Fx("BeginFrame", "throw", <<>>)
            /\ UNCHANGED <<frames, targetVars>>
       ELSE /\ fx' = Fx("BeginFrame", IF BeginFramePassThrows THEN "throw" ELSE "frame",
                        BeginFrameLog)
            /\ frames' = IF BeginFramePassThrows THEN frames
                         ELSE Append(frames, [dev |-> gpuDevice, ends |-> 0])
            /\ Adopt(BeginFrameTargets)
    /\ UNCHANGED <<envVars, geometryVars, threadVars, hasInitialized, gpuAdapter, gpuDevice, context,
                   contextDevice, nDevices, lost, initCalls, sceneVars>>

\* Dispose(): destroy() on the depth and the multisample texture the renderer holds; the
\* fields and the views stay as they are.
Dispose ==
    /\ textures' = [i \in DOMAIN textures |->
                        IF i \in {targets.depth, targets.msaa}
                        THEN [textures[i] EXCEPT !.destroyed = TRUE] ELSE textures[i]]
    /\ fx' = Fx("Dispose", "void",
                (IF targets.depth # 0
                 THEN <<Ev("destroyTexture", "depth", targets.depth)>> ELSE <<>>)
                \o (IF targets.msaa # 0
                    THEN <<Ev("destroyTexture", "msaa", targets.msaa)>> ELSE <<>>))
    /\ UNCHANGED <<envVars, geometryVars, threadVars, hasInitialized, gpuAdapter, gpuDevice,
                   context, contextDevice, nDevices, size, logicalSize, targets,
                   depthTexture, lost, initCalls, frames, sceneVars>>

\* EndFrame with the session BeginFrame returned as the f-th.
EndFrame(f) ==
    /\ f \in DOMAIN frames
    /\ frames[f].ends < MaxEndCalls
    /\ frames' = [frames EXCEPT ![f].ends = @ + 1]
    /\ fx' = Fx("EndFrame", "void", EndFrameLog)
    /\ UNCHANGED <<envVars, geometryVars, threadVars, rendererVars, lost, initCalls, sceneVars>>

----------------------------------------------------------------------------
\* Camera.

\* The size in bytes of the uniform buffer, and where the position goes in it.
UniformBufferSize == 80
PositionOffset == 64

\* The byteLength of the Float32Array of a mat4 (16 floats) and of a vec3 (3 floats).
ByteLength(kind) == IF kind = "mat4" THEN 16 * 4 ELSE 3 * 4

\* queue.writeBuffer(cam's uniform buffer, offset, data).
WriteEv(cam, offset, kind, data) ==
    [e |-> "writeBuffer", a |-> cam, n |-> offset, size |-> ByteLength(kind),
     data |-> data, buffer |-> camBuffer[cam]]

\* WriteUniformsToQueue writing the position as a vec4.
WriteUniformsLogWide(cam) ==
    IF camBuffer[cam] = 0
    THEN <<DebugError("CAM_UNIFORM_BUFFER_UNDEFINED")>>
    ELSE <<WriteEv(cam, 0, "mat4", pose[cam].viewProjection),
           [WriteEv(cam, PositionOffset, "vec3", vec[pose[cam].position])
                EXCEPT !.size = 4 * 4]>>

\* WriteUniformsToQueue: the calls it makes.
WriteUniformsLog(cam) ==
    IF camBuffer[cam] = 0
    THEN <<DebugError("CAM_UNIFORM_BUFFER_UNDEFINED")>>
    ELSE <<WriteEv(cam, 0, "mat4", pose[cam].viewProjection),
           WriteEv(cam, PositionOffset, "vec3", vec[pose[cam].position])>>

\* device.createBuffer for cam's uniforms.
CreateBufferEv(cam, dev) ==
    [e |-> "createBuffer", a |-> cam, n |-> dev, size |-> UniformBufferSize]

\* EnsureBinding(device): the calls it makes.
EnsureBindingLog(cam, dev) ==
    <<Ev("ensureBinding", cam, dev)>>
    \o (IF camBinding[cam] = 0
        THEN <<Ev("createBindGroupLayout", cam, dev)>>
             \o (IF camBuffer[cam] = 0 THEN <<CreateBufferEv(cam, dev)>> ELSE <<>>)
             \o <<Ev("createBindGroup", cam, dev)>>
        ELSE <<>>)

\* EnsureBinding(device) making a new bind group on every call.
EnsureBindingRebinding(cam, dev) == [camBinding EXCEPT ![cam] = dev]

\* EnsureBinding(device): the binding it leaves.
EnsureBinding(cam, dev) ==
    IF camBinding[cam] = 0 THEN [camBinding EXCEPT ![cam] = dev] ELSE camBinding

\* EnsureBinding(device): the uniform buffer it leaves.
EnsureBuffer(cam, dev) ==
    IF camBinding[cam] = 0 /\ camBuffer[cam] = 0
    THEN [camBuffer EXCEPT ![cam] = dev] ELSE camBuffer

\* The whole of EnsureBinding(device) on cam; `op`, `ret` and `done` are of the caller.
EnsureBindingOn(op, ret, done, cam, dev) ==
    /\ camBinding' = EnsureBinding(cam, dev)
    /\ camBuffer' = EnsureBuffer(cam, dev)
    /\ pose' = [pose EXCEPT ![cam] = UpdateMatrices(@, vec)]
    /\ vec' = vec
    /\ fx' = Fx(op, ret, done \o EnsureBindingLog(cam, dev))

\* A device the caller can hand to a Camera: one the renderer acquired.
Devices == 1..nDevices

\* camera.EnsureBinding(device), called directly.
CameraEnsureBinding(cam, dev) ==
    /\ dev \in Devices
    /\ EnsureBindingOn("EnsureBinding", "layout", <<>>, cam, dev)
    /\ UNCHANGED <<envVars, geometryVars, threadVars, rendererVars, lost, initCalls, frames, rendererables,
                   hasPrepared, init, pipeline, prep>>

\* camera.CreateUniformBuffer(device).
CreateUniformBuffer(cam, dev) ==
    /\ dev \in Devices
    /\ camBuffer' = IF camBuffer[cam] = 0 THEN [camBuffer EXCEPT ![cam] = dev]
                    ELSE camBuffer
    /\ fx' = Fx("CreateUniformBuffer", "buffer",
                IF camBuffer[cam] = 0 THEN <<CreateBufferEv(cam, dev)>> ELSE <<>>)
    /\ UNCHANGED <<envVars, geometryVars, threadVars, rendererVars, lost, initCalls, frames, rendererables,
                   hasPrepared, init, pipeline, prep, camBinding, pose, vec>>

\* camera.WriteUniformsToQueue(queue).
WriteUniformsToQueue(cam) ==
    /\ fx' = Fx("WriteUniformsToQueue", IF camBuffer[cam] = 0 THEN "void" ELSE "this",
                WriteUniformsLog(cam))
    /\ UNCHANGED <<envVars, geometryVars, threadVars, rendererVars, lost, initCalls, frames, sceneVars>>

\* What the camera's methods leave: the Vector3 objects as in heap, the camera as p with
\* its matrices updated; ret is what the method returns ("this": what updateMatrices
\* returns, "void": nothing).
Posed(op, ret, cam, p, heap) ==
    /\ vec' = heap
    /\ pose' = [pose EXCEPT ![cam] = UpdateMatrices(p, heap)]
    /\ fx' = Fx(op, ret, <<>>)
    /\ UNCHANGED <<envVars, geometryVars, threadVars, rendererVars, lost, initCalls, frames, rendererables,
                   hasPrepared, init, pipeline, prep, camBinding, camBuffer>>

\* camera.SetPosition(v) and camera.LookAt(v), v a Vector3 object.
SetPositionTo(cam, v) == Posed("SetPosition", "this", cam, [pose[cam] EXCEPT !.position = v], vec)
LookAtVector(cam, v) == Posed("LookAt", "this", cam, [pose[cam] EXCEPT !.target = v], vec)

\* camera.SetPosition(x, y, z) and camera.LookAt(x, y, z), y and z absent or present.
SetPositionXYZ(cam, x, y, z) ==
    LET old == vec[pose[cam].position]
    IN  Posed("SetPosition", "this", cam, pose[cam],
              [vec EXCEPT ![pose[cam].position] =
                    <<x, OrElse(y, old[1]), OrElse(z, old[2])>>])
LookAtXYZ(cam, x, y, z) ==
    LET old == vec[pose[cam].target]
    IN  Posed("LookAt", "this", cam, pose[cam],
              [vec EXCEPT ![pose[cam].target] =
                    <<x, OrElse(y, old[1]), OrElse(z, old[2])>>])

\* camera.SetAspect (declared void: the result of updateMatrices is dropped),
\* SetFieldOfViewInDegrees, SetNear, SetFar.
SetAspect(cam, aspect) ==
    Posed("SetAspect", "void", cam,
          [pose[cam] EXCEPT !.aspect = MaxOf(Ratio(1, 1000000), aspect)], vec)
SetFieldOfViewInDegrees(cam, degrees) ==
    Posed("SetFieldOfViewInDegrees", "this", cam,
          [pose[cam] EXCEPT !.fieldOfViewDegrees =
                IF degrees < 1 THEN 1 ELSE IF degrees > 179 THEN 179 ELSE degrees], vec)
SetNear(cam, near) ==
    Posed("SetNear", "this", cam, [pose[cam] EXCEPT !.near = MaxOf(Ratio(1, 10000), near)], vec)
SetFar(cam, far) ==
    Posed("SetFar", "this", cam,
          [pose[cam] EXCEPT !.far = MaxOf(Plus(pose[cam].near, Ratio(1, 1000)), far)], vec)

\* v.Set(x, y, z) by the caller, on a Vector3 object v; null keeps a component.
VectorSet(v, x, y, z) ==
    /\ vec' = [vec EXCEPT ![v] = <<OrElse(x, vec[v][1]), OrElse(y, vec[v][2]),
                                   OrElse(z, vec[v][3])>>]
    /\ fx' = Fx("Vector3.Set", "this", <<>>)
    /\ UNCHANGED <<envVars, geometryVars, threadVars, rendererVars, lost, initCalls, frames, rendererables,
                   hasPrepared, init, pipeline, prep, camBinding, camBuffer, pose>>

----------------------------------------------------------------------------
\* WebGPURenderer.Render.

\* A Renderable no Initialize of which has come to assign this.pipeline: its Render
\* hands undefined to pass.setPipeline.
MayLackPipeline(r) == ~pipeline[r]

\* The first entry of list whose Renderable has no pipeline, 0 when there is none.
FirstUninitialized(list) ==
    IF \E i \in DOMAIN list : MayLackPipeline(list[i])
    THEN CHOOSE i \in DOMAIN list :
            MayLackPipeline(list[i]) /\ \A j \in 1..(i - 1) : ~MayLackPipeline(list[j])
    ELSE 0

\* The Renderable.Render calls of the loop over list, which an exception leaves at
\* entry `stop` (0: it runs to the end).
DrawLog(list, stop) ==
    [i \in 1..(IF stop = 0 THEN Len(list) ELSE stop) |-> Ev("draw", list[i], i)]

\* Render, after its hasPrepared gate: the uniforms, the frame, the draws, the submit.
\* SimpleTriangle.Render before an Initialize has assigned the pipeline hands undefined
\* to the pass: whether that call throws is the platform's choice (boom).
RenderFrame(cam, boom) ==
    IF gpuDevice = 0
    THEN /\ fx' = Fx("Render", "throw", <<>>)
         /\ UNCHANGED targetVars
    ELSE IF BeginFrameThrows
    THEN /\ fx' = Fx("Render", "throw", WriteUniformsLog(cam))
         /\ UNCHANGED targetVars
    ELSE IF BeginFramePassThrows
    THEN /\ fx' = Fx("Render", "throw", WriteUniformsLog(cam) \o BeginFrameLog)
         /\ Adopt(BeginFrameTargets)
    ELSE LET stop == IF boom THEN FirstUninitialized(rendererables) ELSE 0 IN
         /\ fx' = Fx("Render", IF stop = 0 THEN "void" ELSE "throw",
                     WriteUniformsLog(cam)
                     \o BeginFrameLog
                     \o <<Ev("setBindGroup", cam, camBinding[cam])>>  \* undefined unbinds
                     \o DrawLog(rendererables, stop)
                     \o (IF stop = 0 THEN EndFrameLog ELSE <<>>))
         /\ Adopt(BeginFrameTargets)

\* Whether a Renderable.Render call of this Render can throw.
CanThrowInDraw ==
    /\ gpuDevice # 0 /\ ~BeginFrameThrows /\ ~BeginFramePassThrows
    /\ FirstUninitialized(rendererables) # 0

\* Render without its hasPrepared gate.
RenderUngated(cam) ==
    \E boom \in BOOLEAN :
    /\ boom => CanThrowInDraw
    /\ RenderFrame(cam, boom)
    /\ UNCHANGED <<envVars, geometryVars, threadVars, hasInitialized, gpuAdapter, gpuDevice, context,
                   contextDevice, nDevices, lost, initCalls, frames, sceneVars>>

\* Render(scene, camera).
Render(cam) ==
    \E boom \in BOOLEAN :
    /\ boom => hasPrepared /\ CanThrowInDraw
    /\ IF ~hasPrepared
       THEN /\ fx' = Fx("Render", "void", <<DebugError("WGPUR_SCENE_NOT_PREPARED")>>)
            /\ UNCHANGED targetVars
       ELSE RenderFrame(cam, boom)
    /\ UNCHANGED <<envVars, geometryVars, threadVars, hasInitialized, gpuAdapter, gpuDevice, context,
                   contextDevice, nDevices, lost, initCalls, frames, sceneVars>>

----------------------------------------------------------------------------
\* WebGPURendererScene.

IsRenderable(o) == o \in Renderables

\* Array.indexOf, 1-based: 0 when r is not in list.
IndexOf(list, r) ==
    IF \E i \in DOMAIN list : list[i] = r
    THEN CHOOSE i \in DOMAIN list : list[i] = r /\ \A j \in 1..(i - 1) : list[j] # r
    ELSE 0

\* Array.splice(i, 1).
SpliceOut(list, i) == [j \in 1..(Len(list) - 1) |-> IF j < i THEN list[j] ELSE list[j + 1]]

AddRenderable(o) ==
    /\ Len(rendererables) < MaxRenderables
    /\ rendererables' = IF IsRenderable(o) THEN Append(rendererables, o) ELSE rendererables
    /\ fx' = Fx("AddRenderable", "void", <<>>)
    /\ UNCHANGED <<envVars, geometryVars, threadVars, rendererVars, lost, initCalls, frames, hasPrepared,
                   init, pipeline, cameraVars, prep>>

RemoveRenderable(r) ==
    /\ rendererables' = IF IndexOf(rendererables, r) > 0
                        THEN SpliceOut(rendererables, IndexOf(rendererables, r))
                        ELSE rendererables
    /\ fx' = Fx("RemoveRenderable", "void", <<>>)
    /\ UNCHANGED <<envVars, geometryVars, threadVars, rendererVars, lost, initCalls, frames, hasPrepared,
                   init, pipeline, cameraVars, prep>>

\* ClearRenderables gives the scene a new array: a suspended Prepare keeps the old one.
ClearRenderables ==
    /\ rendererables' = <<>>
    /\ prep' = IF prep.pc = "await" /\ ~prep.detached
               THEN [prep EXCEPT !.detached = TRUE, !.arr = rendererables]
               ELSE prep
    /\ fx' = Fx("ClearRenderables", "void", <<>>)
    /\ UNCHANGED <<envVars, geometryVars, threadVars, rendererVars, lost, initCalls, frames, hasPrepared,
                   init, pipeline, cameraVars>>

\* The array a suspended Prepare iterates.
PrepArray == IF prep.detached THEN prep.arr ELSE rendererables

\* The end of Prepare, after the loop: EnsureBinding, then hasPrepared.  `done` is what
\* the step logged before it.
PrepareFinish(op, cam, done) ==
    /\ camBinding' = EnsureBinding(cam, gpuDevice)
    /\ camBuffer' = EnsureBuffer(cam, gpuDevice)
    /\ pose' = [pose EXCEPT ![cam] = UpdateMatrices(@, vec)]
    /\ vec' = vec
    /\ hasPrepared' = TRUE
    /\ prep' = IdlePrep
    /\ fx' = Fx(op, "void",
                done \o EnsureBindingLog(cam, gpuDevice) \o <<Ev("hasPrepared", "", 0)>>)

\* Prepare's call renderable.Initialize(gpuDevice, format, options.msaaSampleCount ?? 1).
InitializeEv(r) ==
    [e |-> "initialize", a |-> r, n |-> gpuDevice,
     sampleCount |-> OrElse(options.msaaSampleCount, 1)]

\* Prepare, after its hasInitialized gate, to its first await (or to its end).
PrepareRun(cam) ==
    IF Len(rendererables) = 0
    THEN /\ PrepareFinish("Prepare", cam, <<>>)
         /\ UNCHANGED init
    ELSE /\ prep' = [pc |-> "await", idx |-> 1, amount |-> Len(rendererables),
                     cam |-> cam, cur |-> rendererables[1], scoped |-> FALSE,
                     detached |-> FALSE, arr |-> <<>>]
         /\ init' = [init EXCEPT ![rendererables[1]] = "running"]
         /\ fx' = Fx("Prepare", "pending",
                     <<InitializeEv(rendererables[1])>>)
         /\ UNCHANGED <<hasPrepared, cameraVars>>

\* Prepare without its hasInitialized gate.
PrepareUngated(cam) ==
    /\ prep.pc = "idle"
    /\ PrepareRun(cam)
    /\ UNCHANGED <<envVars, geometryVars, threadVars, rendererVars, lost, initCalls, frames,
                   rendererables, pipeline>>

\* Prepare(camera), from the call to its first await (or to its end).
Prepare(cam) ==
    /\ prep.pc = "idle"
    /\ IF ~hasInitialized
       THEN /\ fx' = Fx("Prepare", "void",
                        <<DebugError("WGPURSCENE_RENDERER_NOT_INITIALIZED")>>)
            /\ UNCHANGED <<hasPrepared, init, cameraVars, prep>>
       ELSE PrepareRun(cam)
    /\ UNCHANGED <<envVars, geometryVars, threadVars, rendererVars, lost, initCalls, frames,
                   rendererables, pipeline>>

\* Prepare's loop after the awaited Initialize returned: the next entry, or the end.
PrepareContinue ==
    IF prep.idx + 1 > prep.amount
    THEN /\ PrepareFinish("Prepare.resume", prep.cam, <<>>)
         /\ UNCHANGED init
    ELSE IF prep.idx + 1 > Len(PrepArray)
    THEN \* rendererables[i] is undefined: calling its Initialize is a TypeError
         /\ prep' = IdlePrep
         /\ fx' = Fx("Prepare.resume", "throw", <<Ev("typeError", "", prep.idx + 1)>>)
         /\ UNCHANGED <<hasPrepared, init, cameraVars>>
    ELSE LET next == PrepArray[prep.idx + 1] IN
         /\ init' = [init EXCEPT ![next] = "running"]
         /\ prep' = [prep EXCEPT !.idx = @ + 1, !.cur = next, !.scoped = FALSE]
         /\ fx' = Fx("Prepare.resume", "pending", <<InitializeEv(next)>>)
         /\ UNCHANGED <<hasPrepared, cameraVars>>

\* The Initialize that Prepare awaits, in the promise job after its first await
\* (pushErrorScope): it creates the pipeline and assigns it, and waits for popErrorScope.
InitializeScoped ==
    /\ prep.pc = "await"
    /\ ~prep.scoped
    /\ prep' = [prep EXCEPT !.scoped = TRUE]
    /\ pipeline' = [pipeline EXCEPT ![prep.cur] = TRUE]
    /\ fx' = Fx("Renderable.Initialize.scoped", "pending",
                <<Ev("createRenderPipeline", prep.cur, 0)>>)
    /\ UNCHANGED <<envVars, geometryVars, threadVars, rendererVars, lost, initCalls, frames,
                   rendererables, hasPrepared, init, cameraVars>>

\* The Initialize that Prepare awaits, in the promise job after popErrorScope: with a
\* validation error (~ok) it throws it, else it creates and fills its vertex buffer and
\* returns.  Its promise is settled; the Prepare that awaits it resumes in a later job.
InitializeSettled(ok) ==
    /\ prep.pc = "await"
    /\ prep.scoped
    /\ init[prep.cur] = "running"
    /\ init' = [init EXCEPT ![prep.cur] = IF ok THEN "done" ELSE "failed"]
    /\ fx' = IF ok
             THEN Fx("Renderable.Initialize.settled", "void",
                     <<Ev("initialized", prep.cur, 0)>>)
             ELSE Fx("Renderable.Initialize.settled", "throw",
                     <<Ev("initializeFailed", prep.cur, 0)>>)
    /\ UNCHANGED <<envVars, geometryVars, threadVars, rendererVars, lost, initCalls, frames,
                   rendererables, hasPrepared, pipeline, cameraVars, prep>>

\* Prepare going on after an Initialize that threw, as if it had returned.
PrepareResumedSwallowed ==
    /\ prep.pc = "await"
    /\ init[prep.cur] # "running"
    /\ PrepareContinue
    /\ UNCHANGED <<envVars, geometryVars, threadVars, rendererVars, lost, initCalls, frames,
                   rendererables, pipeline>>

\* Prepare resumed at `await renderable.Initialize(...)`, whose promise is settled: the
\* error of a rejected one is thrown out of Prepare, else the loop goes on to its next
\* await or Prepare to its end.
PrepareResumed ==
    /\ prep.pc = "await"
    /\ init[prep.cur] # "running"
    /\ IF init[prep.cur] = "failed"
       THEN /\ prep' = IdlePrep
            /\ fx' = Fx("Prepare.resume", "throw", <<Ev("rethrown", prep.cur, 0)>>)
            /\ UNCHANGED <<hasPrepared, init, cameraVars>>
       ELSE PrepareContinue
    /\ UNCHANGED <<envVars, geometryVars, threadVars, rendererVars, lost, initCalls, frames,
                   rendererables, pipeline>>

----------------------------------------------------------------------------
\* SimpleTriangle and CubeGeometry: the GPU buffers they create and destroy.  The two
\* objects here are driven by direct calls, the way Prepare calls Initialize.

\* device.createBuffer for a field of a geometry.
Buffer(owner, field, dev) == [owner |-> owner, field |-> field, device |-> dev, destroys |-> 0]

\* GPUBuffer.destroy() on buffer i.
Destroy(bufs, i) == [bufs EXCEPT ![i].destroys = @ + 1]

\* The Initialize calls of a geometry that created its buffers.
Initializes(owner) ==
    Cardinality({i \in DOMAIN buffers :
                    buffers[i].owner = owner /\ buffers[i].field = "vertexBuffer"})

\* SimpleTriangle.Initialize, from the call to `await device.pushErrorScope(...)`: the
\* shader module is created, the pipeline is not, and the call returns its promise.
\* One Initialize call on the triangle is in flight at a time; whatever else the caller
\* does comes between the steps of the call.
TriangleInitialize(dev) ==
    /\ triangle.pc = "idle"
    /\ Initializes("triangle") < MaxInitializes
    /\ triangle' = [triangle EXCEPT !.pc = "scope", !.device = dev]
    /\ fx' = Fx("SimpleTriangle.Initialize", "pending",
                <<Ev("createShaderModule", "triangle", dev),
                  Ev("pushErrorScope", "triangle", dev)>>)
    /\ UNCHANGED <<graphicsVars, threadVars, buffers, cube>>

\* SimpleTriangle.Initialize in the promise job after pushErrorScope, to the call to
\* `await device.popErrorScope()`: the pipeline is created and assigned.
TriangleInitializeScoped ==
    /\ triangle.pc = "scope"
    /\ triangle' = [triangle EXCEPT !.pc = "await", !.pipeline = triangle.device]
    /\ fx' = Fx("SimpleTriangle.Initialize.scoped", "pending",
                <<Ev("createRenderPipeline", "triangle", triangle.device),
                  Ev("popErrorScope", "triangle", triangle.device)>>)
    /\ UNCHANGED <<graphicsVars, threadVars, buffers, cube>>

\* SimpleTriangle.Initialize after popErrorScope resolved: with a validation error it
\* throws, else it creates the vertex buffer and stores it over the one it had.
TriangleInitializeSettled(err) ==
    /\ triangle.pc = "await"
    /\ IF err
       THEN /\ triangle' = [triangle EXCEPT !.pc = "idle", !.device = 0]
            /\ buffers' = buffers
            /\ fx' = Fx("SimpleTriangle.Initialize.resume", "throw", <<>>)
       ELSE /\ buffers' = Append(buffers, Buffer("triangle", "vertexBuffer", triangle.device))
            /\ triangle' = [triangle EXCEPT !.pc = "idle", !.device = 0,
                                            !.vertexBuffer = Len(buffers) + 1]
            /\ fx' = Fx("SimpleTriangle.Initialize.resume", "void",
                        <<Ev("createBuffer", "triangle", Len(buffers) + 1),
                          Ev("writeBuffer", "triangle", Len(buffers) + 1)>>)
    /\ UNCHANGED <<graphicsVars, threadVars, cube>>

\* SimpleTriangle.Dispose: the field keeps the destroyed buffer.
TriangleDispose ==
    /\ triangle.vertexBuffer # 0 => buffers[triangle.vertexBuffer].destroys < MaxDisposes
    /\ IF triangle.vertexBuffer = 0
       THEN /\ buffers' = buffers
            /\ fx' = Fx("SimpleTriangle.Dispose", "void",
                        <<DebugError("RENDERABLE_VERTEX_BUFFER_UNDEFINED")>>)
       ELSE /\ buffers' = Destroy(buffers, triangle.vertexBuffer)
            /\ fx' = Fx("SimpleTriangle.Dispose", "void",
                        <<Ev("destroy", "triangle", triangle.vertexBuffer)>>)
    /\ UNCHANGED <<graphicsVars, threadVars, triangle, cube>>

\* CubeGeometry.Initialize: synchronous, three buffers stored over the ones it had.
CubeInitialize(dev) ==
    LET n == Len(buffers) IN
    /\ Initializes("cube") < MaxInitializes
    /\ buffers' = buffers \o <<Buffer("cube", "vertexBuffer", dev),
                                Buffer("cube", "indexBuffer", dev),
                                Buffer("cube", "uniformBuffer", dev)>>
    /\ cube' = [vertexBuffer |-> n + 1, indexBuffer |-> n + 2, uniformBuffer |-> n + 3]
    /\ fx' = Fx("CubeGeometry.Initialize", "void",
                <<Ev("createShaderModule", "cube", dev),
                  Ev("createRenderPipeline", "cube", dev),
                  Ev("createBuffer", "cube", n + 1),
                  Ev("createBuffer", "cube", n + 2),
                  Ev("writeBuffer", "cube", n + 1),
                  Ev("writeBuffer", "cube", n + 2),
                  Ev("createBuffer", "cube", n + 3),
                  Ev("createBindGroup", "cube", n + 3)>>)
    /\ UNCHANGED <<graphicsVars, threadVars, triangle>>

\* CubeGeometry.Dispose: before Initialize, vertexBuffer is undefined and the first
\* destroy() call is a TypeError.
CubeDispose ==
    /\ cube.vertexBuffer # 0 => buffers[cube.vertexBuffer].destroys < MaxDisposes
    /\ IF cube.vertexBuffer = 0
       THEN /\ buffers' = buffers
            /\ fx' = Fx("CubeGeometry.Dispose", "throw", <<>>)
       ELSE /\ buffers' = Destroy(Destroy(Destroy(buffers, cube.vertexBuffer),
                                          cube.indexBuffer), cube.uniformBuffer)
            /\ fx' = Fx("CubeGeometry.Dispose", "void",
                        <<Ev("destroy", "cube", cube.vertexBuffer),
                          Ev("destroy", "cube", cube.indexBuffer),
                          Ev("destroy", "cube", cube.uniformBuffer)>>)
    /\ UNCHANGED <<graphicsVars, threadVars, triangle, cube>>

----------------------------------------------------------------------------
\* Thread: the frame scheduler.

\* The keys of ThreadEventMap.
ThreadEventNames == {"idle", "start", "stop", "update"}

\* The callbacks the application registers.  "log" does nothing to the thread, "halt"
\* calls Stop(), "bounce" calls Stop() and then Start() the first time it runs, and
\* "raise" throws.
Callbacks == {"log", "halt", "bounce", "raise"}

\* A function in a registry: the callback itself (once = 0), or the wrapper that the
\* once-th call of Once made around it.
Listener(cb, once) == [cb |-> cb, once |-> once]

Min(a, b) == IF a <= b THEN a ELSE b
Times(a, b) == Ratio(a.n * b.n, a.d * b.d)
Same(a, b) == a.n * b.d = b.n * a.d

\* The length of the frame-rate window, in ms.
WindowMs == 1000

\* The thread, the window's frame callbacks and the callbacks' own state, with the
\* effects a call has had so far and whether an exception is on its way up.
ThreadState ==
    [thread |-> thread, raf |-> raf, bounced |-> bounced, log |-> <<>>, thrown |-> FALSE]

Logged(s, ev) == [s EXCEPT !.log = Append(@, ev)]

\* A listener being called: for which event, with which argument, and isActive then.
CallEv(event, l, payload, active) ==
    [e |-> "call", a |-> event, n |-> l.once, cb |-> l.cb, payload |-> payload,
     isActive |-> active]

\* RemoveEventListener with splice(i) for splice(i, 1): the rest of the array goes too.
RemoveEventListenerTruncating(s, event, l) ==
    LET arr == s.thread.events[event]
        i == IndexOf(arr, l)
    IN  IF i = 0 THEN s ELSE [s EXCEPT !.thread.events[event] = SubSeq(arr, 1, i - 1)]

\* RemoveEventListener(event, l): the first entry that is l is spliced out.
RemoveEventListenerOn(s, event, l) ==
    LET arr == s.thread.events[event]
        i == IndexOf(arr, l)
    IN  IF i = 0 THEN s ELSE [s EXCEPT !.thread.events[event] = SpliceOut(arr, i)]

\* this.animationFrame = window.requestAnimationFrame(this.loop).
RequestAnimationFrameOn(s) ==
    LET id == s.raf.requested + 1 IN
    [s EXCEPT !.raf = [requested |-> id, pending |-> s.raf.pending \cup {id}],
              !.thread.animationFrame = id,
              !.log = Append(@, Ev("requestAnimationFrame", "", id))]

\* Stop's `if (this.animationFrame) { cancelAnimationFrame(...); ... = 0 }`.
CancelAnimationFrameOn(s) ==
    IF s.thread.animationFrame = 0 THEN s
    ELSE [s EXCEPT !.raf.pending = @ \ {s.thread.animationFrame},
                   !.thread.animationFrame = 0,
                   !.log = Append(@, Ev("cancelAnimationFrame", "", s.thread.animationFrame))]

RECURSIVE Evict(_, _)
\* loop's `while (times.length > 0 && times[0] <= now - 1000) times.shift()`.
Evict(times, now) ==
    IF Len(times) > 0 /\ times[1] <= now - WindowMs THEN Evict(Tail(times), now) ELSE times

\* loop's delta without the clamp.
DeltaMsUnclamped(rawDeltaMs, maxDeltaMs) == rawDeltaMs

\* loop's `Math.min(rawDeltaMs, this.maxDeltaMs)`.
DeltaMs(rawDeltaMs, maxDeltaMs) == Min(rawDeltaMs, maxDeltaMs)

\* loop's `deltaMs / 1000 * this.simulationUpdateRate`.
DeltaTime(deltaMs, rate) == Times(Ratio(deltaMs, 1000), Ratio(rate, 1))

\* Start never refusing.
StartAlways(s) == FALSE

\* Start's `if (this.isActive)`.
StartRefused(s) == s.thread.isActive

\* Stop's `if (!this.isActive)`.
StopRefused(s) == ~s.thread.isActive

RECURSIVE ForEach(_, _, _, _, _), Invoke(_, _, _, _), Body(_, _, _), StartOn(_), StopOn(_)

\* this.events[event].forEach(fn => fn(payload)), at index i of the n the array had
\* when forEach began: forEach reads the array as it is now and passes over an index
\* the array no longer has.
ForEach(s, event, i, n, payload) ==
    IF i > n \/ s.thrown THEN s
    ELSE IF i > Len(s.thread.events[event]) THEN ForEach(s, event, i + 1, n, payload)
    ELSE ForEach(Invoke(s, event, s.thread.events[event][i], payload),
                 event, i + 1, n, payload)

\* A call of the function l.  A wrapper of Once calls its callback and then, when that
\* returned, removes itself.
Invoke(s, event, l, payload) ==
    LET called == Body(Logged(s, CallEv(event, l, payload, s.thread.isActive)),
                       event, l.cb)
    IN  IF l.once = 0 \/ called.thrown THEN called
        ELSE RemoveEventListenerOn(called, event, l)

\* What a callback does when it is called for event.
Body(s, event, cb) ==
    CASE cb = "log" -> s
      [] cb = "halt" -> StopOn(s)
      [] cb = "bounce" -> IF s.bounced THEN s
                          ELSE LET stopped == StopOn([s EXCEPT !.bounced = TRUE])
                               IN  IF stopped.thrown THEN stopped ELSE StartOn(stopped)
      [] cb = "raise" -> [s EXCEPT !.thrown = TRUE]

\* Thread.Start() at time clock.
StartOn(s) ==
    IF StartRefused(s)
    THEN Logged(s, DebugWarn("THREAD_ALREADY_ACTIVE"))
    ELSE LET on == [s EXCEPT !.thread.isActive = TRUE,
                             !.thread.startTimestamp = clock,
                             !.thread.lastRegisteredTimestamp = clock,
                             !.thread.currentRegisteredTimestamp = clock,
                             !.thread.times = <<>>,
                             !.thread.frameRate = 0]
             called == ForEach(on, "start", 1, Len(on.thread.events.start), <<>>)
         IN  IF called.thrown THEN called ELSE RequestAnimationFrameOn(called)

\* Thread.Stop().
StopOn(s) ==
    IF StopRefused(s)
    THEN Logged(s, DebugWarn("THREAD_ALREADY_INACTIVE"))
    ELSE LET off == CancelAnimationFrameOn([s EXCEPT !.thread.isActive = FALSE])
             stopped == ForEach(off, "stop", 1, Len(off.thread.events.stop), <<>>)
         IN  IF stopped.thrown THEN stopped
             ELSE ForEach(stopped, "idle", 1, Len(stopped.thread.events.idle), <<>>)

\* The argument of the "update" listeners.
UpdatePayload(t, now) ==
    [now |-> now, deltaTime |-> t.deltaTime, frameRate |-> t.frameRate,
     lastRegisteredTimestamp |-> t.lastRegisteredTimestamp,
     simulationUpdateRate |-> t.simulationUpdateRate]

\* Thread.loop, the frame callback, at time clock.
LoopOn(s) ==
    IF ~s.thread.isActive THEN s
    ELSE LET asked == RequestAnimationFrameOn(s)
             now == clock
             rawDeltaMs == now - s.thread.lastRegisteredTimestamp
             deltaMs == DeltaMs(rawDeltaMs, s.thread.maxDeltaMs)
             times == Append(Evict(s.thread.times, now), now)
             timed == [asked EXCEPT
                          !.thread.deltaTime = DeltaTime(deltaMs, s.thread.simulationUpdateRate),
                          !.thread.lastRegisteredTimestamp = now,
                          !.thread.currentRegisteredTimestamp = now,
                          !.thread.times = times,
                          !.thread.frameRate = Len(times)]
         IN  ForEach(timed, "update", 1, Len(timed.thread.events.update),
                     <<UpdatePayload(timed.thread, now)>>)

\* The listeners registered, over the four events.
Registered ==
    Len(thread.events.idle) + Len(thread.events.start)
        + Len(thread.events.stop) + Len(thread.events.update)

\* The thread and the window after a call that left them as s; the call throws what a
\* listener threw.
AdoptThread(op, ret, s) ==
    /\ s.raf.requested <= MaxFrameRequests
    /\ thread' = s.thread
    /\ raf' = s.raf
    /\ bounced' = s.bounced
    /\ fx' = Fx(op, IF s.thrown THEN "throw" ELSE ret, s.log)
    /\ UNCHANGED <<graphicsVars, geometryVars, clock>>

Start ==
    /\ AdoptThread("Start", "this", StartOn(ThreadState))
    /\ UNCHANGED wrappers

Stop ==
    /\ AdoptThread("Stop", "this", StopOn(ThreadState))
    /\ UNCHANGED wrappers

\* The window calls the frame callback it was asked for as request id.
Loop(id) ==
    /\ id \in raf.pending
    /\ AdoptThread("loop", "void",
                   LoopOn(Logged([ThreadState EXCEPT !.raf.pending = @ \ {id}],
                                 Ev("frame", "", id))))
    /\ UNCHANGED wrappers

SetSimulationUpdateRate(rate) ==
    /\ AdoptThread("SetSimulationUpdateRate", "this",
                   IF rate <= 0
                   THEN Logged(ThreadState,
                               DebugError("THREAD_INVALID_SIMULATION_UPDATE_RATE"))
                   ELSE [ThreadState EXCEPT !.thread.simulationUpdateRate = rate])
    /\ UNCHANGED wrappers

SetMaxDeltaMs(ms) ==
    /\ AdoptThread("SetMaxDeltaMs", "this",
                   IF ms <= 0
                   THEN Logged(ThreadState, DebugError("THREAD_INVALID_DELTA_TIME"))
                   ELSE [ThreadState EXCEPT !.thread.maxDeltaMs = ms])
    /\ UNCHANGED wrappers

AddEventListener(event, cb) ==
    /\ Registered < MaxListeners
    /\ AdoptThread("AddEventListener", "unsubscribe",
                   [ThreadState EXCEPT !.thread.events[event] = Append(@, Listener(cb, 0))])
    /\ UNCHANGED wrappers

\* Once(event, cb): a new wrapper, registered through AddEventListener.
Once(event, cb) ==
    /\ Registered < MaxListeners
    /\ Len(wrappers) < MaxWrappers
    /\ wrappers' = Append(wrappers, [event |-> event, cb |-> cb])
    /\ AdoptThread("Once", "unsubscribe",
                   [ThreadState EXCEPT
                       !.thread.events[event] = Append(@, Listener(cb, Len(wrappers) + 1))])

RemoveEventListener(event, cb) ==
    /\ AdoptThread("RemoveEventListener", "this",
                   RemoveEventListenerOn(ThreadState, event, Listener(cb, 0)))
    /\ UNCHANGED wrappers

\* The function Once returned for its n-th wrapper.
Unsubscribe(n) ==
    /\ n \in DOMAIN wrappers
    /\ AdoptThread("unsubscribe", "this",
                   RemoveEventListenerOn(
                       Logged(ThreadState, Ev("unsubscribe", wrappers[n].event, n)),
                       wrappers[n].event, Listener(wrappers[n].cb, n)))
    /\ UNCHANGED wrappers

\* ClearEventListeners(event?): <<>> is the call without an argument.
ClearEventListeners(event) ==
    /\ AdoptThread("ClearEventListeners", "this",
                   [ThreadState EXCEPT !.thread.events =
                       [k \in ThreadEventNames |->
                           IF event = <<>> \/ event = <<k>> THEN <<>> ELSE @[k]]])
    /\ UNCHANGED wrappers

\* Time passes.
Elapse(gap) ==
    /\ clock + gap <= MaxClock
    /\ clock' = clock + gap
    /\ fx' = Fx("elapse", "none", <<>>)
    /\ UNCHANGED <<graphicsVars, geometryVars, thread, raf, wrappers, bounced>>

----------------------------------------------------------------------------
\* Vector3: the methods that change the vector they are called on and return it.  The
\* coordinates here are integers: a call is made where the code's result is an integer
\* again, which the guards of Divide, Normalize, RotateAroundAxis and
\* SaveConvertPixelsToMeters say.

\* Vector3.PPM, pixels per meter.
PPM == 30

Abs(x) == IF x < 0 THEN 0 - x ELSE x
InRange(a) == \A i \in 1..3 : Abs(a[i]) <= MaxCoordinate

\* x / d is an integer, and that integer.
Divides(d, x) == d # 0 /\ \E q \in (0 - Abs(x))..Abs(x) : q * d = x
Quotient(x, d) == CHOOSE q \in (0 - Abs(x))..Abs(x) : q * d = x

\* The Vector3 object v has the coordinates a after the call op, which returns v; no
\* camera that holds v updates its matrices.
VectorAssign(op, v, a) ==
    /\ vec' = [vec EXCEPT ![v] = a]
    /\ fx' = Fx(op, "this", <<>>)
    /\ UNCHANGED <<envVars, geometryVars, threadVars, rendererVars, lost, initCalls, frames,
                   rendererables, hasPrepared, init, pipeline, prep, camBinding, camBuffer, pose>>

\* v.Add(u), v.Subtract(u), v.Multiply(u), v.MultiplyScalar(s).
VectorAdd(v, u) ==
    LET a == vec[v]
        r == <<a[1] + u[1], a[2] + u[2], a[3] + u[3]>>
    IN  InRange(r) /\ VectorAssign("Vector3.Add", v, r)
VectorSubtract(v, u) ==
    LET a == vec[v]
        r == <<a[1] - u[1], a[2] - u[2], a[3] - u[3]>>
    IN  InRange(r) /\ VectorAssign("Vector3.Subtract", v, r)
VectorMultiply(v, u) ==
    LET a == vec[v]
        r == <<a[1] * u[1], a[2] * u[2], a[3] * u[3]>>
    IN  InRange(r) /\ VectorAssign("Vector3.Multiply", v, r)
VectorMultiplyScalar(v, scalar) ==
    LET a == vec[v]
        r == <<a[1] * scalar, a[2] * scalar, a[3] * scalar>>
    IN  InRange(r) /\ VectorAssign("Vector3.MultiplyScalar", v, r)

\* v.Divide(u) and v.Devide(u), the older spelling with the same body.
VectorDivide(v, u) ==
    LET a == vec[v] IN
    /\ \A i \in 1..3 : Divides(u[i], a[i])
    /\ VectorAssign("Vector3.Divide", v,
                    <<Quotient(a[1], u[1]), Quotient(a[2], u[2]), Quotient(a[3], u[3])>>)
VectorDevide(v, u) ==
    LET a == vec[v] IN
    /\ \A i \in 1..3 : Divides(u[i], a[i])
    /\ VectorAssign("Vector3.Devide", v,
                    <<Quotient(a[1], u[1]), Quotient(a[2], u[2]), Quotient(a[3], u[3])>>)

\* v.Min(u), v.Max(u), v.Clamp(lo, hi), v.ClampScalar(lo, hi).
VectorMin(v, u) ==
    LET a == vec[v]
    IN  VectorAssign("Vector3.Min", v, <<Min(a[1], u[1]), Min(a[2], u[2]), Min(a[3], u[3])>>)
VectorMax(v, u) ==
    LET a == vec[v]
    IN  VectorAssign("Vector3.Max", v, <<Max(a[1], u[1]), Max(a[2], u[2]), Max(a[3], u[3])>>)
VectorClamp(v, lo, hi) ==
    LET a == vec[v]
    IN  VectorAssign("Vector3.Clamp", v,
                     <<Max(lo[1], Min(hi[1], a[1])), Max(lo[2], Min(hi[2], a[2])),
                       Max(lo[3], Min(hi[3], a[3]))>>)
VectorClampScalar(v, lo, hi) ==
    LET a == vec[v]
    IN  VectorAssign("Vector3.ClampScalar", v,
                     <<Max(lo, Min(hi, a[1])), Max(lo, Min(hi, a[2])),
                       Max(lo, Min(hi, a[3]))>>)

\* v.Floor(), v.Ceil(), v.Round(): an integer is its own floor, ceiling and rounding.
VectorFloor(v) == VectorAssign("Vector3.Floor", v, vec[v])
VectorCeil(v) == VectorAssign("Vector3.Ceil", v, vec[v])
VectorRound(v) == VectorAssign("Vector3.Round", v, vec[v])

\* v.Normalize(), for v with at most one coordinate that is not 0: the length is the
\* absolute value of that coordinate, and a vector of length 0 is left as it is.
VectorNormalize(v) ==
    LET a == vec[v]
        len == Abs(a[1]) + Abs(a[2]) + Abs(a[3])
    IN  /\ Cardinality({i \in 1..3 : a[i] # 0}) <= 1
        /\ VectorAssign("Vector3.Normalize", v,
                        IF len = 0 THEN a
                        ELSE <<Quotient(a[1], len), Quotient(a[2], len), Quotient(a[3], len)>>)

\* v.RotateAroundAxis(axis, angle), for an axis of length 0 (the call returns at once)
\* or an angle of 0 (cos 1, sin 0: every coordinate is multiplied by 1).
VectorRotateAroundAxis(v, axis, angle) ==
    /\ axis = <<0, 0, 0>> \/ angle = 0
    /\ VectorAssign("Vector3.RotateAroundAxis", v, vec[v])

\* v.SaveConvertPixelsToMeters(), for coordinates that are 0, PPM or 2 * PPM up to sign,
\* and v.SaveConvertMetersToPixels().
VectorSaveConvertPixelsToMeters(v) ==
    LET a == vec[v] IN
    /\ \A i \in 1..3 : Abs(a[i]) \in {0, PPM, 2 * PPM}
    /\ VectorAssign("Vector3.SaveConvertPixelsToMeters", v,
                    <<Quotient(a[1], PPM), Quotient(a[2], PPM), Quotient(a[3], PPM)>>)
VectorSaveConvertMetersToPixels(v) ==
    LET a == vec[v] IN
    /\ InRange(a)
    /\ VectorAssign("Vector3.SaveConvertMetersToPixels", v,
                    <<a[1] * PPM, a[2] * PPM, a[3] * PPM>>)

----------------------------------------------------------------------------
\* Specifications.

\* One renderer, one scene: acquisition, the scene's list, Prepare and Render.  The
\* caller calls Initialize until it has succeeded once; SpecFrame and SpecInit cover
\* Initialize calls after that.
Next ==
    \/ \E k \in MainCalls : ~hasInitialized /\ InitStart(k)
    \/ \E k \in MainCalls, found \in BOOLEAN : AdapterResolved(k, found)
    \/ \E k \in MainCalls, ok \in BOOLEAN : DeviceResolved(k, ok)
    \/ \E o \in Objects : AddRenderable(o)
    \/ \E r \in Renderables : RemoveRenderable(r)
    \/ ClearRenderables
    \/ \E c \in Cameras : Prepare(c)
    \/ InitializeScoped
    \/ \E ok \in BOOLEAN : InitializeSettled(ok)
    \/ PrepareResumed
    \/ \E c \in Cameras : Render(c)

Spec == Init /\ [][Next]_vars

\* One renderer: acquisition, device loss and the frame protocol.
NextFrame ==
    \/ \E k \in MainCalls : InitStart(k)
    \/ \E k \in MainCalls, found \in BOOLEAN : AdapterResolved(k, found)
    \/ \E k \in MainCalls, ok \in BOOLEAN : DeviceResolved(k, ok)
    \/ \E d \in 1..MaxDevices : DeviceLost(d)
    \/ BeginFrame
    \/ \E f \in 1..MaxFrames : EndFrame(f)
    \/ \E c \in Cameras : Prepare(c)
    \/ \E c \in Cameras : Render(c)

SpecFrame == Init /\ [][NextFrame]_vars

\* One renderer: Initialize calls, which may overlap at their awaits.
NextInit ==
    \/ \E k \in InitCalls : InitStart(k)
    \/ \E k \in InitCalls, found \in BOOLEAN : AdapterResolved(k, found)
    \/ \E k \in InitCalls, ok \in BOOLEAN : DeviceResolved(k, ok)
    \/ \E d \in 1..MaxDevices : DeviceLost(d)

SpecInit == Init /\ [][NextInit]_vars

\* The platforms and the options of SpecTargets.
Platforms ==
    {[devicePixelRatio |-> Ratio(1, 2), clientWidth |-> 0, clientHeight |-> 0,
      webgpuContext |-> TRUE],
     [devicePixelRatio |-> Ratio(3, 2), clientWidth |-> 3, clientHeight |-> 1,
      webgpuContext |-> TRUE]}
CanvasOptions == {<<>>, <<5>>}
MsaaOptions == {<<>>, <<0>>, <<1>>, <<2>>, <<3>>, <<4>>, <<8>>, <<16>>}
RatioOptions == {<<>>, <<Ratio(0, 1)>>, <<Ratio(2, 1)>>}

\* What the caller passes to SetSize and to SetDevicePixelRatio.
Lengths == {0, 3}
RatioArgs == {Ratio(0 - 1, 1), Ratio(1, 2), Ratio(200, 1)}

\* new WebGPURenderer(options) on a platform with WebGPU; the canvas is given both of
\* its sizes or none.
InitTargets ==
    /\ navigatorGpu = TRUE
    /\ platform \in Platforms
    /\ options \in {[canvasWidth |-> c, canvasHeight |-> c, msaaSampleCount |-> m,
                     devicePixelRatio |-> r] :
                        c \in CanvasOptions, m \in MsaaOptions, r \in RatioOptions}
    /\ Constructed

\* One renderer: acquisition, resizing and BeginFrame, for every platform and option.
\* The caller calls Initialize until it has succeeded once.
NextTargets ==
    \/ \E k \in MainCalls : ~hasInitialized /\ InitStart(k)
    \/ \E k \in MainCalls, found \in BOOLEAN : AdapterResolved(k, found)
    \/ \E k \in MainCalls, ok \in BOOLEAN : DeviceResolved(k, ok)
    \/ \E w, h \in Lengths : SetSize(w, h)
    \/ \E r \in RatioArgs : SetDevicePixelRatio(r)
    \/ BeginFrame

SpecTargets == InitTargets /\ [][NextTargets]_vars

\* The camera SpecSamples prepares the scene with.
PreparedCameras == {"camA"}

\* The msaaSampleCount options of SpecDispose.
DisposeMsaaOptions == {<<>>, <<4>>}

\* new WebGPURenderer({msaaSampleCount}) on a platform with WebGPU.
InitDispose ==
    /\ navigatorGpu = TRUE
    /\ platform = [devicePixelRatio |-> Ratio(1, 1), clientWidth |-> 0, clientHeight |-> 0,
                   webgpuContext |-> TRUE]
    /\ options \in {[canvasWidth |-> <<>>, canvasHeight |-> <<>>, msaaSampleCount |-> m,
                     devicePixelRatio |-> <<>>] : m \in DisposeMsaaOptions}
    /\ Constructed

\* One renderer: acquisition, resizing, Dispose and BeginFrame.
NextDispose ==
    \/ NextTargets
    \/ Dispose

SpecDispose == InitDispose /\ [][NextDispose]_vars

\* What the caller passes to SetCanvasSizeRelativeToWindow, and the sizes the window
\* is resized to.
Margins == {0, 2, 5}
WindowSizes == {<<3, 3>>, <<0, 3>>}

WindowRatioOptions == {<<>>, <<Ratio(2, 1)>>}

\* new WebGPURenderer({msaaSampleCount, devicePixelRatio}) in a window: the calls of
\* SpecTargets, the canvas sized after the window, and the window resized.
InitWindow ==
    /\ navigatorGpu = TRUE
    /\ platform \in Platforms
    /\ options \in {[canvasWidth |-> <<>>, canvasHeight |-> <<>>, msaaSampleCount |-> m,
                     devicePixelRatio |-> r] :
                        m \in DisposeMsaaOptions, r \in WindowRatioOptions}
    /\ Constructed

NextWindow ==
    \/ NextTargets
    \/ \E margin \in Margins, updateOnResize \in BOOLEAN :
            SetCanvasSizeRelativeToWindow(margin, updateOnResize)
    \/ \E s \in WindowSizes : WindowResize(s[1], s[2])

SpecWindow == InitWindow /\ [][NextWindow]_vars

\* new WebGPURenderer() on a platform with WebGPU, whose canvas hands out a "webgpu"
\* context or none.
InitContext ==
    /\ navigatorGpu = TRUE
    /\ platform \in {[devicePixelRatio |-> Ratio(1, 1), clientWidth |-> 0,
                      clientHeight |-> 0, webgpuContext |-> c] : c \in BOOLEAN}
    /\ options = [canvasWidth |-> <<>>, canvasHeight |-> <<>>,
                  msaaSampleCount |-> <<>>, devicePixelRatio |-> <<>>]
    /\ Constructed

\* One renderer on either canvas: acquisition, device loss and the frame protocol.
SpecContext == InitContext /\ [][NextFrame]_vars

\* One renderer with any options and its scene: acquisition, the scene's list, Prepare
\* and BeginFrame.
NextSamples ==
    \/ \E k \in MainCalls : ~hasInitialized /\ InitStart(k)
    \/ \E k \in MainCalls, found \in BOOLEAN : AdapterResolved(k, found)
    \/ \E k \in MainCalls, ok \in BOOLEAN : DeviceResolved(k, ok)
    \/ \E r \in Renderables : AddRenderable(r)
    \/ \E c \in PreparedCameras : Prepare(c)
    \/ InitializeScoped
    \/ \E ok \in BOOLEAN : InitializeSettled(ok)
    \/ PrepareResumed
    \/ BeginFrame

SpecSamples == InitTargets /\ [][NextSamples]_vars

\* One renderer and its Cameras: acquisition, Prepare on an empty scene, the Camera's
\* binding and the uniform write.
NextCamera ==
    \/ \E k \in MainCalls : InitStart(k)
    \/ \E k \in MainCalls, found \in BOOLEAN : AdapterResolved(k, found)
    \/ \E k \in MainCalls, ok \in BOOLEAN : DeviceResolved(k, ok)
    \/ \E c \in Cameras : Prepare(c)
    \/ \E c \in Cameras, d \in 1..MaxDevices : CameraEnsureBinding(c, d)
    \/ \E c \in Cameras, d \in 1..MaxDevices : CreateUniformBuffer(c, d)
    \/ \E c \in Cameras : WriteUniformsToQueue(c)

SpecCamera == Init /\ [][NextCamera]_vars

\* What the caller passes to the Camera's methods in SpecPose.
MovedCameras == {"camA"}
HeldVectors == {"v"}
Coordinates == {1}
MaybeCoordinates == {<<>>, <<1>>}
AspectArgs == {Ratio(0, 1)}
DegreeArgs == {200}
NearArgs == {Ratio(0, 1)}
FarArgs == {Ratio(0, 1)}

\* One Camera with a uniform buffer: its setters, the Vector3 object the caller holds,
\* and the uniform write.
NextPose ==
    \/ \E k \in MainCalls : ~hasInitialized /\ InitStart(k)
    \/ \E k \in MainCalls, found \in BOOLEAN : AdapterResolved(k, found)
    \/ \E k \in MainCalls, ok \in BOOLEAN : DeviceResolved(k, ok)
    \/ \E c \in MovedCameras, d \in 1..MaxDevices : CreateUniformBuffer(c, d)
    \/ \E c \in MovedCameras : WriteUniformsToQueue(c)
    \/ \E c \in MovedCameras, v \in HeldVectors : SetPositionTo(c, v)
    \/ \E c \in MovedCameras, v \in HeldVectors : LookAtVector(c, v)
    \/ \E c \in MovedCameras, x \in Coordinates, y \in MaybeCoordinates :
            SetPositionXYZ(c, x, y, <<>>)
    \/ \E c \in MovedCameras, x \in Coordinates, z \in MaybeCoordinates :
            LookAtXYZ(c, x, <<>>, z)
    \/ \E c \in MovedCameras, a \in AspectArgs : SetAspect(c, a)
    \/ \E c \in MovedCameras, g \in DegreeArgs : SetFieldOfViewInDegrees(c, g)
    \/ \E c \in MovedCameras, n \in NearArgs : SetNear(c, n)
    \/ \E c \in MovedCameras, f \in FarArgs : SetFar(c, f)
    \/ \E v \in HeldVectors, x \in MaybeCoordinates : VectorSet(v, x, <<>>, <<>>)

SpecPose == Init /\ [][NextPose]_vars

\* What the caller passes to the methods of the Vector3 object it holds.
VectorArgs == {<<1, 0, 0>>, <<2, 0, 0>>}
DivisorArgs == {<<2, 1, 1>>, <<0 - 1, 1, 1>>}
ScalarArgs == {0 - 1, 2}
ClampArgs == {<<0, 1>>}
AngleArgs == {0, 1}

\* new PerspectiveCamera() and new Vector3() on a platform with WebGPU.
InitVector == Init /\ navigatorGpu

\* One Camera with a uniform buffer and the Vector3 object the caller hands to it as
\* its position and goes on changing.
NextVector ==
    \/ \E k \in MainCalls : ~hasInitialized /\ InitStart(k)
    \/ \E k \in MainCalls : AdapterResolved(k, TRUE)
    \/ \E k \in MainCalls : DeviceResolved(k, TRUE)
    \/ \E c \in MovedCameras : gpuDevice # 0 /\ CreateUniformBuffer(c, gpuDevice)
    \/ \E c \in MovedCameras : WriteUniformsToQueue(c)
    \/ \E c \in MovedCameras, v \in HeldVectors : SetPositionTo(c, v)
    \/ \E v \in HeldVectors, x \in MaybeCoordinates : VectorSet(v, x, <<>>, <<>>)
    \/ \E v \in HeldVectors, u \in VectorArgs : VectorAdd(v, u)
    \/ \E v \in HeldVectors, u \in VectorArgs : VectorSubtract(v, u)
    \/ \E v \in HeldVectors, u \in VectorArgs : VectorMultiply(v, u)
    \/ \E v \in HeldVectors, k \in ScalarArgs : VectorMultiplyScalar(v, k)
    \/ \E v \in HeldVectors, u \in DivisorArgs : VectorDivide(v, u)
    \/ \E v \in HeldVectors, u \in DivisorArgs : VectorDevide(v, u)
    \/ \E v \in HeldVectors, u \in VectorArgs : VectorMin(v, u)
    \/ \E v \in HeldVectors, u \in VectorArgs : VectorMax(v, u)
    \/ \E v \in HeldVectors, b \in ClampArgs :
            VectorClamp(v, <<b[1], b[1], b[1]>>, <<b[2], b[2], b[2]>>)
    \/ \E v \in HeldVectors, b \in ClampArgs : VectorClampScalar(v, b[1], b[2])
    \/ \E v \in HeldVectors : VectorFloor(v)
    \/ \E v \in HeldVectors : VectorCeil(v)
    \/ \E v \in HeldVectors : VectorRound(v)
    \/ \E v \in HeldVectors : VectorNormalize(v)
    \/ \E v \in HeldVectors, u \in VectorArgs, g \in AngleArgs :
            VectorRotateAroundAxis(v, u, g)
    \/ \E v \in HeldVectors : VectorSaveConvertPixelsToMeters(v)
    \/ \E v \in HeldVectors : VectorSaveConvertMetersToPixels(v)

SpecVector == InitVector /\ [][NextVector]_vars

\* What the caller passes to SetNear and SetFar in SpecLens.
LensNearArgs == {Ratio(0, 1), Ratio(5, 1), Ratio(200, 1)}
LensFarArgs == {Ratio(0, 1), Ratio(10, 1), Ratio(100, 1)}

\* One PerspectiveCamera and the setters of its lens.
NextLens ==
    \/ \E c \in MovedCameras, n \in LensNearArgs : SetNear(c, n)
    \/ \E c \in MovedCameras, f \in LensFarArgs : SetFar(c, f)
    \/ \E c \in MovedCameras, a \in AspectArgs : SetAspect(c, a)
    \/ \E c \in MovedCameras, g \in DegreeArgs : SetFieldOfViewInDegrees(c, g)

SpecLens == Init /\ [][NextLens]_vars

\* One SimpleTriangle and one CubeGeometry, initialized on the renderer's devices and
\* disposed by the application.
NextRenderable ==
    \/ \E k \in MainCalls : InitStart(k)
    \/ \E k \in MainCalls, found \in BOOLEAN : AdapterResolved(k, found)
    \/ \E k \in MainCalls, ok \in BOOLEAN : DeviceResolved(k, ok)
    \/ \E d \in 1..MaxDevices : d \in Devices /\ TriangleInitialize(d)
    \/ TriangleInitializeScoped
    \/ \E err \in BOOLEAN : TriangleInitializeSettled(err)
    \/ TriangleDispose
    \/ \E d \in 1..MaxDevices : d \in Devices /\ CubeInitialize(d)
    \/ CubeDispose

SpecRenderable == Init /\ [][NextRenderable]_vars

\* new Thread(): the renderer plays no part.
InitThread == Init /\ navigatorGpu

\* The time between the calls to a Thread with listeners.
ThreadGaps == {5000}
ClearArgs == {<<>>, <<"update">>, <<"start">>}
OnceEvents == {"start"}

\* One Thread and its registry: listeners that do nothing to the thread.
NextListeners ==
    \/ Start
    \/ Stop
    \/ \E id \in 1..MaxFrameRequests : Loop(id)
    \/ \E event \in ThreadEventNames : AddEventListener(event, "log")
    \/ \E event \in OnceEvents : Once(event, "log")
    \/ \E event \in ThreadEventNames : RemoveEventListener(event, "log")
    \/ \E n \in 1..MaxWrappers : Unsubscribe(n)
    \/ \E event \in ClearArgs : ClearEventListeners(event)
    \/ \E gap \in ThreadGaps : Elapse(gap)

SpecListeners == InitThread /\ [][NextListeners]_vars

\* A Thread on which the application has registered, in this order: "halt", "log",
\* "halt", "log" for "update"; "log" twice for "start"; "log" for "idle"; and for "stop"
\* "log" with Once and then "log" itself.
InitRegistry ==
    /\ navigatorGpu = TRUE
    /\ platform = [devicePixelRatio |-> Ratio(1, 1), clientWidth |-> 0, clientHeight |-> 0,
                   webgpuContext |-> TRUE]
    /\ options = [canvasWidth |-> <<>>, canvasHeight |-> <<>>,
                  msaaSampleCount |-> <<>>, devicePixelRatio |-> <<>>]
    /\ ConstructedRenderer
    /\ thread = [NewThread(0) EXCEPT !.events =
                    [idle |-> <<Listener("log", 0)>>,
                     start |-> <<Listener("log", 0), Listener("log", 0)>>,
                     stop |-> <<Listener("log", 1), Listener("log", 0)>>,
                     update |-> <<Listener("halt", 0), Listener("log", 0),
                                  Listener("halt", 0), Listener("log", 0)>>]]
    /\ wrappers = <<[event |-> "stop", cb |-> "log"]>>

\* The calls of RemoveEventListener on that Thread.
RemovalArgs == {<<"update", "log">>, <<"update", "halt">>, <<"start", "log">>,
                <<"idle", "log">>, <<"stop", "log">>}

\* One Thread with several listeners per event, which the application removes.
NextRegistry ==
    \/ Start
    \/ Stop
    \/ \E id \in 1..MaxFrameRequests : Loop(id)
    \/ \E a \in RemovalArgs : RemoveEventListener(a[1], a[2])
    \/ \E n \in 1..MaxWrappers : Unsubscribe(n)
    \/ \E event \in ClearArgs : ClearEventListeners(event)
    \/ \E gap \in ThreadGaps : Elapse(gap)

SpecRegistry == InitRegistry /\ [][NextRegistry]_vars

\* The registrations of SpecLive.
LiveRegistrations == {<<"start", "raise">>, <<"update", "log">>, <<"update", "raise">>}

\* One Thread whose listeners may throw, on a platform that runs every frame callback
\* that stays pending.
NextLive ==
    \/ Start
    \/ Stop
    \/ \E id \in 1..MaxFrameRequests : Loop(id)
    \/ \E r \in LiveRegistrations : AddEventListener(r[1], r[2])
    \/ \E event \in ClearArgs : ClearEventListeners(event)

SpecLive ==
    /\ InitThread
    /\ [][NextLive]_vars
    /\ \A id \in 1..MaxFrameRequests : WF_vars(Loop(id))

\* The registrations of SpecThread.
Registrations == {<<"update", "log">>, <<"update", "halt">>}
OnceRegistrations == {<<"start", "bounce">>, <<"update", "log">>}

\* One Thread whose listeners call back into it.
NextThread ==
    \/ Start
    \/ Stop
    \/ \E id \in 1..MaxFrameRequests : Loop(id)
    \/ \E r \in Registrations : AddEventListener(r[1], r[2])
    \/ \E r \in OnceRegistrations : Once(r[1], r[2])
    \/ \E n \in 1..MaxWrappers : Unsubscribe(n)
    \/ \E gap \in ThreadGaps : Elapse(gap)

SpecThread == InitThread /\ [][NextThread]_vars

\* The times between the calls of SpecTiming, and its rates and clamps.
TimingGaps == {500, 5000}
RateArgs == {0, 30}
MaxDeltaArgs == {0, 1000}

\* One Thread without listeners: its clock and its timing state.
NextTiming ==
    \/ Start
    \/ Stop
    \/ \E id \in 1..MaxFrameRequests : Loop(id)
    \/ \E gap \in TimingGaps : Elapse(gap)
    \/ \E rate \in RateArgs : SetSimulationUpdateRate(rate)
    \/ \E ms \in MaxDeltaArgs : SetMaxDeltaMs(ms)

SpecTiming == InitThread /\ [][NextTiming]_vars

----------------------------------------------------------------------------
\* Properties.

PrepareOps == {"Prepare", "Prepare.resume"}

\* The Renderables whose Initialize has started and not settled.
Running == {r \in Renderables : init[r] = "running"}

\* The sessions handed out by BeginFrame and not yet passed to EndFrame.
OpenFrames == {f \in DOMAIN frames : frames[f].ends = 0}

\* The Renderables a Render call drew, in the order it drew them.
Drawn(log) == [i \in 1..Count(log, "draw") |-> Events(log, "draw")[i].a]

\* C1: Render never calls Render on a Renderable whose Initialize has not completed,
\* whatever AddRenderable, RemoveRenderable, ClearRenderables and Prepare calls came
\* before; a Renderable added after a successful Prepare is not drawn before it has been
\* initialized.
C1_RenderDrawsOnlyInitialized ==
    fx.op = "Render" =>
        \A i \in DOMAIN fx.log : fx.log[i].e = "draw" => init[fx.log[i].a] = "done"

\* C2: Render on a scene whose hasPrepared is false reports WGPUR_SCENE_NOT_PREPARED
\* and does nothing else: no uniform write, no BeginFrame, no draw, no submit.
C2_RenderUnpreparedIsNoOp ==
    (fx.op = "Render" /\ ~hasPrepared) =>
        /\ fx.ret = "void"
        /\ fx.log = <<DebugError("WGPUR_SCENE_NOT_PREPARED")>>

C2_Witness ==
    /\ fx.op = "Render"
    /\ ~hasPrepared
    /\ hasInitialized
    /\ Len(rendererables) = 2

\* C3: at most one frame session is open per renderer: a BeginFrame while an earlier
\* session is still open reports a usage error and creates no second command encoder
\* or render pass.
C3_AtMostOneOpenSession ==
    /\ Cardinality(OpenFrames) <= 1
    /\ (fx.op = "BeginFrame" /\ \E f \in OpenFrames : f < Len(frames)) =>
            /\ Count(fx.log, "error") >= 1
            /\ Count(fx.log, "createCommandEncoder") = 0
            /\ Count(fx.log, "beginRenderPass") = 0

\* C4: EndFrame without a matching open session reports a usage error, ends no pass and
\* submits nothing, so every session is ended and submitted at most once.
C4_SessionSubmittedAtMostOnce ==
    \A f \in DOMAIN frames : frames[f].ends <= 1

\* C5: once the device-lost callback has fired for the renderer's device, a BeginFrame or
\* Render before a new device has been acquired reports an error and creates no command
\* encoder, no render pass and no queue submission on the lost device.
C5_NoFrameOnLostDevice ==
    (fx.op \in {"BeginFrame", "Render"} /\ gpuDevice \in lost) =>
        /\ Count(fx.log, "error") >= 1
        /\ Count(fx.log, "createCommandEncoder") = 0
        /\ Count(fx.log, "beginRenderPass") = 0
        /\ Count(fx.log, "submit") = 0

C6_State ==
    /\ Cardinality(Running) <= 1
    /\ Running \subseteq (IF prep.pc = "await" THEN {prep.cur} ELSE {})
    /\ fx.op \in PrepareOps =>
        /\ Count(fx.log, "initialize") <= 1
        /\ Count(fx.log, "ensureBinding") >= 1 =>
                /\ Count(fx.log, "ensureBinding") = 1
                /\ Count(fx.log, "initialize") = 0
                /\ Running = {}
        /\ Count(fx.log, "hasPrepared") >= 1 =>
                /\ hasPrepared
                /\ Count(fx.log, "ensureBinding") = 1
                /\ FirstAt(fx.log, "ensureBinding") < FirstAt(fx.log, "hasPrepared")
        /\ fx.ret = "throw" =>
                /\ prep.pc = "idle"
                /\ Count(fx.log, "initialize") = 0
                /\ Count(fx.log, "ensureBinding") = 0
                /\ Count(fx.log, "hasPrepared") = 0

C6_Step ==
    /\ (fx'.op \in PrepareOps /\ Count(fx'.log, "initialize") = 1) =>
            /\ Running = {}
            /\ prep.pc = "await" => init[prep.cur] = "done"
            /\ prep'.pc = "await"
            /\ prep'.idx = prep.idx + 1
            /\ prep'.idx <= Len(PrepArray')
            /\ prep'.cur = PrepArray'[prep'.idx]
            /\ Events(fx'.log, "initialize")[1].a = prep'.cur
            /\ Running' = {prep'.cur}
    /\ (fx'.op \in PrepareOps /\ Count(fx'.log, "ensureBinding") >= 1) =>
            /\ Running = {}
            /\ IF prep.pc = "await"
               THEN prep.idx = prep.amount /\ init[prep.cur] = "done"
               ELSE Len(rendererables) = 0
    /\ (fx'.op = "Prepare.resume" /\ init[prep.cur] = "failed") =>
            /\ fx'.ret = "throw"
            /\ Count(fx'.log, "initialize") = 0
            /\ Count(fx'.log, "ensureBinding") = 0
            /\ hasPrepared' = hasPrepared
    /\ hasPrepared' # hasPrepared =>
            /\ hasPrepared'
            /\ fx'.op \in PrepareOps
            /\ Count(fx'.log, "hasPrepared") = 1
    /\ (fx'.op \in PrepareOps /\ fx'.ret = "throw") => hasPrepared' = hasPrepared

\* C6: Prepare initializes the Renderables one at a time in list order: the Initialize
\* of the next entry starts only when the one before has completed, EnsureBinding runs
\* only after the last Initialize has completed, hasPrepared becomes true only after
\* all of these, and a Prepare in which an Initialize fails does not set hasPrepared.
C6_PrepareIsSequential == [](C6_State) /\ [][C6_Step]_vars

C6_Witness ==
    /\ fx.op = "Prepare.resume"
    /\ Count(fx.log, "hasPrepared") = 1
    /\ rendererables = <<"r1", "r2">>
    /\ init["r1"] = "done"
    /\ init["r2"] = "done"

\* C7: Prepare on a scene whose renderer has not been initialized reports
\* WGPURSCENE_RENDERER_NOT_INITIALIZED, calls Initialize on no Renderable, creates no
\* camera binding and leaves hasPrepared false.
C7_PrepareUninitializedIsNoOp ==
    (fx.op = "Prepare" /\ ~hasInitialized) =>
        /\ fx.ret = "void"
        /\ fx.log = <<DebugError("WGPURSCENE_RENDERER_NOT_INITIALIZED")>>
        /\ ~hasPrepared
        /\ Running = {}
        /\ \A c \in Cameras : camBinding[c] = 0

C7_Witness ==
    /\ fx.op = "Prepare"
    /\ ~hasInitialized
    /\ Len(rendererables) = 2

\* C8: a Render call on a prepared scene calls Renderable.Render exactly once per entry
\* of the scene's list, in list order, and all of these calls come after the camera
\* uniform write, BeginFrame and the camera bind-group binding, and before EndFrame.
C8_DrawOrderIsInsertionOrder ==
    (fx.op = "Render" /\ hasPrepared) =>
        /\ Drawn(fx.log) = rendererables
        /\ \A i \in DOMAIN fx.log : fx.log[i].e = "draw" =>
                /\ \E j \in 1..(i - 1) : fx.log[j].e = "writeBuffer"
                /\ \E j \in 1..(i - 1) : fx.log[j].e = "beginRenderPass"
                /\ \E j \in 1..(i - 1) : fx.log[j].e = "setBindGroup"
                /\ \E j \in (i + 1)..Len(fx.log) : fx.log[j].e = "passEnd"
                /\ \A j \in 1..(i - 1) : fx.log[j].e # "passEnd"

C9_State ==
    /\ \A k \in InitCalls :
        /\ initCalls[k].adapterRequests <= 1
        /\ initCalls[k].deviceRequests <= 1
        /\ initCalls[k].deviceRequests <= initCalls[k].adapterRequests
        /\ initCalls[k].pc = "adapter" => initCalls[k].deviceRequests = 0
    /\ ~navigatorGpu =>
        /\ \A k \in InitCalls : initCalls[k] = IdleCall
        /\ ~hasInitialized /\ gpuDevice = 0 /\ nDevices = 0
        /\ context = "undef" /\ contextDevice = 0 /\ depthTexture = 0
    /\ fx.op = "Initialize" =>
        IF navigatorGpu
        THEN fx.ret = "pending" /\ fx.log = <<Ev("requestAdapter", "", 0)>>
        ELSE fx.ret = "null" /\ fx.log = <<DebugError("WGPUR_API_NOT_SUPPORTED")>>
    /\ (fx.op = "Initialize.adapter" /\ fx.ret = "null") =>
        fx.log = <<DebugError("WGPUR_UNABLE_TO_GET_ADAPTER")>>

C9_Step ==
    \A k \in InitCalls :
        /\ initCalls'[k].deviceRequests > initCalls[k].deviceRequests =>
                initCalls[k].pc = "adapter" /\ initCalls[k].adapterRequests = 1
        /\ (initCalls[k].pc = "adapter" /\ initCalls'[k].pc = "idle") =>
                /\ fx'.ret = "null"
                /\ initCalls'[k].deviceRequests = 0
                /\ UNCHANGED <<hasInitialized, gpuDevice, context, contextDevice,
                               depthTexture, nDevices>>
        /\ (initCalls[k].pc = "adapter" /\ initCalls'[k] # initCalls[k]) =>
                initCalls'[k].pc \in {"idle", "device"}

\* C9: Initialize checks the platform's capability, then requests an adapter, then a
\* device, each at most once per call: without navigator.gpu it returns null and
\* requests no adapter; without an adapter it returns null and requests no device; in
\* both cases it leaves hasInitialized alone and creates no device, configures no
\* context and builds no render target.
C9_InitializeStepsOnce == [](C9_State) /\ [][C9_Step]_vars

C9_Witness ==
    /\ fx.op = "Initialize.adapter"
    /\ fx.ret = "null"
    /\ ~hasInitialized
    /\ \E k \in InitCalls : initCalls[k].pc = "device"

\* C10: when the device request is rejected, Initialize returns null and reports a
\* diagnostic through the sink; its promise does not reject.
C10_DeviceRejectionReturnsNull ==
    (fx.op = "Initialize.device" /\ fx.ret # "this") =>
        /\ fx.ret = "null"
        /\ Count(fx.log, "error") >= 1

\* The devices requestDevice handed to the renderer that are neither lost nor destroyed
\* (the renderer destroys none).
LiveDevices == (1..nDevices) \ lost

\* The textures the renderer created and has not destroyed.
LiveTextures == {i \in DOMAIN textures : ~textures[i].destroyed}

\* C11: at most one acquired device is live per renderer, for any sequence or overlap of
\* Initialize calls, and the configured canvas context and the depth and multisample
\* textures belong to the renderer's current gpuDevice.
C11_OneDevicePerRenderer ==
    /\ Cardinality(LiveDevices) <= 1
    /\ gpuDevice # 0 =>
        /\ contextDevice = gpuDevice
        /\ \A i \in {targets.depth, targets.msaa} \ {0} : textures[i].dev = gpuDevice

C12_State ==
    /\ \A i \in DOMAIN textures : textures[i].width >= 1 /\ textures[i].height >= 1
    /\ fx.op = "SetSize" =>
        /\ size.width >= 1 /\ size.height >= 1
        /\ size.canvasWidth >= 1 /\ size.canvasHeight >= 1

C12_Step ==
    \A w, h \in Lengths :
        SetSize(w, h) =>
            LET pw == Max(1, (w * size.devicePixelRatio.n) \div size.devicePixelRatio.d)
                ph == Max(1, (h * size.devicePixelRatio.n) \div size.devicePixelRatio.d)
            IN  /\ size'.devicePixelRatio = size.devicePixelRatio
                /\ size'.canvasWidth = pw /\ size'.canvasHeight = ph
                /\ size'.width = pw /\ size'.height = ph
                /\ gpuDevice # 0 =>
                    /\ targets'.depth > Len(textures)
                    /\ \A i \in {targets'.depth, targets'.msaa} \ {0} :
                        /\ i > Len(textures)
                        /\ ~textures'[i].destroyed
                        /\ textures'[i].width = pw
                        /\ textures'[i].height = ph

\* C12: after SetSize(w, h) with stored ratio r, the canvas and the renderer have the size
\* max(1, floor(w*r)) by max(1, floor(h*r)); when a device exists, the depth texture and
\* the multisample texture, if any, were rebuilt by this call with exactly this size;
\* no dimension is 0.
C12_SetSizeIsPhysicalSize == [](C12_State) /\ [][C12_Step]_vars

C12_Witness ==
    /\ fx.op = "SetSize"
    /\ gpuDevice # 0
    /\ targets.msaa # 0
    /\ size.devicePixelRatio = Ratio(3, 2)
    /\ size.width = 4 /\ size.height = 1

\* C13: in every reachable state, at construction and after any sequence of
\* SetDevicePixelRatio calls (calls with ratio <= 0 included), the stored device pixel
\* ratio lies in [1, 100].
C13_RatioInRange ==
    /\ size.devicePixelRatio.n >= size.devicePixelRatio.d
    /\ size.devicePixelRatio.n <= 100 * size.devicePixelRatio.d

\* The sample count the configured msaaSampleCount stands for.
EffectiveSampleCount ==
    IF options.msaaSampleCount \in {<<1>>, <<2>>, <<4>>, <<8>>}
    THEN options.msaaSampleCount[1] ELSE 1

\* The render targets are allocated and not destroyed.
TargetsAllocated ==
    /\ targets.depth \in LiveTextures
    /\ textures[targets.depth].kind = "depth"
    /\ IF EffectiveSampleCount > 1
       THEN targets.msaa \in LiveTextures /\ textures[targets.msaa].kind = "msaa"
       ELSE targets.msaa = 0

\* C14: the render targets are allocated with the configured msaaSampleCount when it is
\* 1, 2, 4 or 8 and with 1 for every other value and for an absent one; whatever the
\* value, a rebuild on a device allocates the targets.
C14_SampleCountIsSupported ==
    /\ \A i \in DOMAIN textures : textures[i].sampleCount = EffectiveSampleCount
    /\ gpuDevice # 0 => TargetsAllocated
    /\ (fx.op \in {"SetSize", "SetDevicePixelRatio"} /\ fx.ret = "this" /\ gpuDevice # 0) =>
            Count(fx.log, "createTexture") >= 1

C14_Witness ==
    /\ options.msaaSampleCount = <<16>>
    /\ fx.op = "SetSize"
    /\ gpuDevice # 0
    /\ Len(textures) = 3

\* C15: BeginFrame chooses its colour attachment by the sample count the render targets
\* were allocated with: above 1, the view is the existing multisample view and the
\* surface view is the resolve target; at 1, the view is the surface view and there is
\* no resolve target; for every configured msaaSampleCount.
C15_AttachmentFollowsSampleCount ==
    \A i \in DOMAIN fx.log :
        fx.log[i].e = "beginRenderPass" =>
            IF EffectiveSampleCount > 1
            THEN /\ fx.log[i].view = "msaa"
                 /\ fx.log[i].tex = targets.msaa
                 /\ fx.log[i].tex \in LiveTextures
                 /\ fx.log[i].resolveTarget = "surface"
            ELSE /\ fx.log[i].view = "surface"
                 /\ fx.log[i].resolveTarget = "none"

C16_State ==
    /\ LiveTextures \subseteq {targets.depth, targets.msaa}
    /\ Cardinality({i \in LiveTextures : textures[i].kind = "depth"}) <= 1
    /\ Cardinality({i \in LiveTextures : textures[i].kind = "msaa"}) <= 1

C16_Step ==
    /\ \A i \in DOMAIN textures : textures'[i].destroyed \/ textures'[i] = textures[i]
    /\ \A i \in DOMAIN fx'.log :
        (fx'.log[i].e = "createTexture" /\ fx'.log[i].n > Len(textures)) =>
            \A t \in LiveTextures \cup (Len(textures) + 1)..(fx'.log[i].n - 1) :
                textures'[t].kind = textures'[fx'.log[i].n].kind =>
                    \E j \in 1..(i - 1) :
                        fx'.log[j].e = "destroyTexture" /\ fx'.log[j].n = t

\* C16: every rebuild of the render targets destroys the existing depth and multisample
\* textures before it allocates their replacements: after any sequence of Initialize,
\* SetSize, SetDevicePixelRatio and BeginFrame calls, at most one depth texture and at
\* most one multisample texture are not destroyed, they are the renderer's targets, and
\* every other texture it created has been destroyed.
C16_RebuildDestroysFirst == [](C16_State) /\ [][C16_Step]_vars

C16_Witness ==
    /\ Len(textures) = 6
    /\ Cardinality(LiveTextures) = 2
    /\ targets.msaa # 0
    /\ fx.op = "SetSize"

\* The render targets are those a rebuild would allocate now: not destroyed, on the
\* current device, of the current size and sample count.
TargetsValid ==
    /\ TargetsAllocated
    /\ \A i \in {targets.depth, targets.msaa} \ {0} :
        /\ textures[i].dev = gpuDevice
        /\ textures[i].width = Max(1, size.width)
        /\ textures[i].height = Max(1, size.height)
        /\ textures[i].sampleCount = EffectiveSampleCount

C17_Step ==
    (fx'.op = "BeginFrame" /\ fx'.log # <<>>) =>
        IF gpuDevice # 0 /\ TargetsValid
        THEN /\ textures' = textures
             /\ targets' = targets
             /\ Count(fx'.log, "destroyTexture") = 0
             /\ Count(fx'.log, "createTexture") = 0
        ELSE /\ TargetsValid'
             /\ FirstAt(fx'.log, "createTexture") < FirstAt(fx'.log, "beginRenderPass")

\* C17: BeginFrame rebuilds the render targets before it opens the pass when they are
\* uninitialized or stale, and leaves them untouched otherwise: a BeginFrame on valid
\* targets destroys and allocates no texture.
C17_BeginFrameReusesValidTargets == [][C17_Step]_vars

\* The events of log that are calls e for camera c.
CameraEvents(log, e, c) == SelectSeq(log, LAMBDA x : x.e = e /\ x.a = c)

C18_Step ==
    \A c \in Cameras :
        /\ camBuffer[c] # 0 => camBuffer'[c] = camBuffer[c]
        /\ camBinding[c] # 0 => camBinding'[c] = camBinding[c]
        /\ Len(CameraEvents(fx'.log, "createBuffer", c)) =
                IF camBuffer[c] = 0 /\ camBuffer'[c] # 0 THEN 1 ELSE 0
        /\ Len(CameraEvents(fx'.log, "createBindGroupLayout", c)) =
                IF camBinding[c] = 0 /\ camBinding'[c] # 0 THEN 1 ELSE 0
        /\ Len(CameraEvents(fx'.log, "createBindGroup", c)) =
                IF camBinding[c] = 0 /\ camBinding'[c] # 0 THEN 1 ELSE 0

\* C18: over any number of EnsureBinding, CreateUniformBuffer and Scene.Prepare calls on
\* one camera, its uniform buffer, its bind-group layout and its bind group are each
\* created exactly once: a call creates one only when the camera has none, and a handle
\* once set is kept.
C18_BindingCreatedOnce == [][C18_Step]_vars

C18_Witness ==
    /\ fx.op = "Prepare"
    /\ gpuDevice = 2
    /\ Len(CameraEvents(fx.log, "ensureBinding", "camA")) = 1
    /\ Count(fx.log, "createBindGroup") = 0
    /\ camBinding["camA"] = 1
    /\ camBuffer["camA"] = 2

\* C19: the view-projection matrix a WriteUniformsToQueue writes is the one derived from
\* the camera's position, target, up, field of view, aspect, near and far as they are at
\* that moment, whatever setters ran and whatever was done to the Vector3 objects handed
\* to SetPosition or LookAt; the position written in the same call is the one the
\* matrix was derived from.
C19_WriteReflectsCameraState ==
    fx.op = "WriteUniformsToQueue" =>
        \A i \in DOMAIN fx.log :
            (fx.log[i].e = "writeBuffer" /\ fx.log[i].n = 0) =>
                LET c == fx.log[i].a
                    position == vec[pose[c].position]
                IN  /\ fx.log[i].data.right =
                            [eye |-> position, center |-> vec[pose[c].target], up |-> Up]
                    /\ fx.log[i].data.left =
                            [fovy |-> pose[c].fieldOfViewDegrees, aspect |-> pose[c].aspect,
                             near |-> pose[c].near, far |-> pose[c].far]
                    /\ \A j \in DOMAIN fx.log :
                            (fx.log[j].e = "writeBuffer" /\ fx.log[j].n = 64) =>
                                fx.log[j].data = fx.log[i].data.right.eye

C20_Step ==
    \A c \in Cameras :
        WriteUniformsToQueue(c) =>
            IF camBuffer[c] # 0
            THEN /\ Len(fx'.log) = 2
                 /\ \A i \in 1..2 :
                        /\ fx'.log[i].e = "writeBuffer"
                        /\ fx'.log[i].a = c
                        /\ fx'.log[i].buffer = camBuffer[c]
                        /\ fx'.log[i].n + fx'.log[i].size <= 80
                 /\ fx'.log[1].n = 0 /\ fx'.log[1].size = 64
                 /\ fx'.log[1].data = pose[c].viewProjection
                 /\ fx'.log[2].n = 64 /\ fx'.log[2].size = 12
                 /\ fx'.log[2].data = vec[pose[c].position]
            ELSE fx'.log = <<DebugError("CAM_UNIFORM_BUFFER_UNDEFINED")>>

\* C20: WriteUniformsToQueue on a camera with a uniform buffer issues exactly two writes
\* into that buffer, the 64 bytes of the view-projection matrix at offset 0 and the 12
\* bytes of the position at offset 64, none reaching past byte 80; without a uniform
\* buffer it reports an error and writes nothing.
C20_UniformLayout ==
    [](\A i \in DOMAIN fx.log : fx.log[i].e = "createBuffer" => fx.log[i].size = 80)
    /\ [][C20_Step]_vars

C20_Witness ==
    /\ fx.op = "WriteUniformsToQueue"
    /\ Count(fx.log, "writeBuffer") = 2
    /\ camBinding["camB"] # 0

----------------------------------------------------------------------------
\* Renderable: buffers.

\* The geometry a Dispose step was called on.
Disposed ==
    IF fx.op = "SimpleTriangle.Dispose" THEN {"triangle"}
    ELSE IF fx.op = "CubeGeometry.Dispose" THEN {"cube"}
    ELSE {}

\* C21: over any sequence of Initialize and Dispose calls on a SimpleTriangle or a
\* CubeGeometry, each buffer an Initialize created is destroyed at most once, and
\* when a Dispose has returned no buffer the geometry created is left undestroyed.
C21_BuffersReleasedOnce ==
    /\ \A i \in DOMAIN buffers : buffers[i].destroys <= 1
    /\ \A g \in Disposed : \A i \in DOMAIN buffers :
            buffers[i].owner = g => buffers[i].destroys >= 1

----------------------------------------------------------------------------
\* Thread.

C22_Step ==
    /\ (fx'.op = "Start" /\ thread.isActive) =>
            /\ fx'.log = <<DebugWarn("THREAD_ALREADY_ACTIVE")>>
            /\ thread' = thread
            /\ raf' = raf
    /\ (fx'.op = "Stop" /\ ~thread.isActive) =>
            /\ fx'.log = <<DebugWarn("THREAD_ALREADY_INACTIVE")>>
            /\ thread' = thread
            /\ raf' = raf

\* C22: Start while Active and Stop while Idle only emit a warning: no listener is
\* called, no frame callback is requested or cancelled, and isActive, the timestamps,
\* the window, frameRate and deltaTime (and the registry) stay as they were.
C22_RedundantStartStopIsNoOp == [][C22_Step]_vars

C22_Witness ==
    /\ fx.op = "Start"
    /\ fx.log = <<DebugWarn("THREAD_ALREADY_ACTIVE")>>
    /\ thread.isActive
    /\ thread.frameRate = 1
    /\ Len(thread.events.start) = 1
    /\ Len(thread.events.update) = 1
    /\ raf.pending # {}

\* The listeners a step called, in order, each with the event it was called for.
CallsOf(log) ==
    [i \in 1..Count(log, "call") |->
        [event |-> Events(log, "call")[i].a,
         l |-> Listener(Events(log, "call")[i].cb, Events(log, "call")[i].n)]]

\* One call of each listener of list for event, in the order of list.
EachOnce(event, list) == [i \in DOMAIN list |-> [event |-> event, l |-> list[i]]]

C23_Step ==
    /\ thread'.isActive # thread.isActive =>
            \/ fx'.op = "Start" /\ ~thread.isActive
            \/ fx'.op = "Stop" /\ thread.isActive
    /\ (fx'.op = "Start" /\ ~thread.isActive) =>
            /\ thread'.isActive
            /\ CallsOf(fx'.log) = EachOnce("start", thread.events.start)
            /\ Count(fx'.log, "requestAnimationFrame") = 1
            /\ Count(fx'.log, "call") >= 1 =>
                    LastAt(fx'.log, "call") < FirstAt(fx'.log, "requestAnimationFrame")
    /\ (fx'.op = "Stop" /\ thread.isActive) =>
            /\ ~thread'.isActive
            /\ raf'.pending = {}
            /\ CallsOf(fx'.log) = EachOnce("stop", thread.events.stop)
                                      \o EachOnce("idle", thread.events.idle)
            /\ \A i \in DOMAIN fx'.log :
                    fx'.log[i].e = "call" => ~fx'.log[i].isActive

\* C23: isActive changes only through Start (Idle to Active) and Stop (Active to
\* Idle).  A Start from Idle calls every "start" listener exactly once, in registration
\* order, before it asks for the first tick; a Stop from Active cancels the pending
\* frame callback and calls every "stop" listener and then every "idle" listener, each
\* exactly once and in that order, with isActive already false.
C23_StartStopDispatch == [][C23_Step]_vars

C24_Step ==
    (fx'.op = "loop" /\ thread.isActive) =>
        /\ CallsOf(fx'.log) = EachOnce("update", thread.events.update)
        /\ \A i \in DOMAIN fx'.log :
                fx'.log[i].e = "call" =>
                    /\ fx'.log[i].a = "update"
                    /\ fx'.log[i].payload =
                            <<[now |-> clock,
                               deltaTime |-> thread'.deltaTime,
                               frameRate |-> thread'.frameRate,
                               lastRegisteredTimestamp |-> clock,
                               simulationUpdateRate |-> thread.simulationUpdateRate]>>

\* C24: on every tick while Active, each listener that is registered for "update" when
\* the dispatch starts is called exactly once with that tick's payload, in registration
\* order, whether it was registered with AddEventListener or with Once.
C24_UpdateReachesEveryListener == [][C24_Step]_vars

\* The time of the latest tick of this run or, before its first tick, of its Start.
Previous ==
    IF Len(thread.times) > 0 THEN thread.times[Len(thread.times)]
    ELSE thread.startTimestamp

C25_Step ==
    (fx'.op = "loop" /\ thread.isActive) =>
        LET gap == clock - Previous
            dt == thread'.deltaTime
        IN  /\ Same(dt, Ratio(Min(gap, thread.maxDeltaMs) * thread.simulationUpdateRate, 1000))
            /\ dt.d > 0
            /\ dt.n >= 0
            /\ dt.n * 1000 <= thread.maxDeltaMs * thread.simulationUpdateRate * dt.d
            /\ (gap = 5000 /\ thread.maxDeltaMs = DefaultMaxDeltaMs) =>
                    Same(dt, Ratio(250 * thread.simulationUpdateRate, 1000))
            /\ (gap = 5000 /\ thread.maxDeltaMs = DefaultMaxDeltaMs
                    /\ thread.simulationUpdateRate = DefaultSimulationUpdateRate) =>
                    Same(dt, Ratio(15, 1))

\* C25: on each tick, deltaTime = min(now - previous, maxDeltaMs) / 1000 *
\* simulationUpdateRate, where previous is the time of the tick before or, for the
\* first tick after a Start, the time of that Start; a 5000 ms gap with the defaults
\* gives the value for 250 ms (15 at rate 60), and deltaTime lies in
\* [0, maxDeltaMs * simulationUpdateRate / 1000].
C25_DeltaTimeIsClamped == [][C25_Step]_vars

C25_Witness ==
    /\ fx.op = "loop"
    /\ thread.startTimestamp = 500
    /\ clock = 5500
    /\ raf.requested = 2
    /\ thread.maxDeltaMs = DefaultMaxDeltaMs
    /\ thread.simulationUpdateRate = DefaultSimulationUpdateRate
    /\ Same(thread.deltaTime, Ratio(15, 1))

C26_State ==
    /\ thread.frameRate = Len(thread.times)
    /\ \A i \in 1..(Len(thread.times) - 1) : thread.times[i] <= thread.times[i + 1]
    /\ \A i \in DOMAIN thread.times :
            thread.startTimestamp <= thread.times[i] /\ thread.times[i] <= clock

C26_Step ==
    /\ (fx'.op = "loop" /\ thread.isActive) =>
            thread'.times =
                Append(SelectSeq(thread.times, LAMBDA t : t >= clock - WindowMs), clock)
    /\ (fx'.op = "Start" /\ ~thread.isActive) =>
            thread'.times = <<>> /\ thread'.frameRate = 0

\* C26: after every tick at time now the window holds exactly the timestamps of the
\* ticks since the last Start with timestamp >= now - 1000, in order, and frameRate is
\* the window's length; Start empties the window and sets frameRate to 0.
C26_WindowIsLastSecond == [](C26_State) /\ [][C26_Step]_vars

\* The n-th wrapper of Once, and whether a registry holds it.
Wrapper(n) == Listener(wrappers[n].cb, n)
Holds(t, n) == \E i \in DOMAIN t.events[wrappers[n].event] :
                    t.events[wrappers[n].event][i] = Wrapper(n)

\* The calls of the n-th wrapper in a step.
WrapperCalls(log, n) == Cardinality({i \in DOMAIN log : log[i].e = "call" /\ log[i].n = n})

C27_State ==
    \A n \in DOMAIN wrappers :
        /\ WrapperCalls(fx.log, n) <= 1
        /\ WrapperCalls(fx.log, n) >= 1 => ~Holds(thread, n)

C27_Step ==
    /\ \A n \in DOMAIN wrappers :
            ~Holds(thread, n) => ~Holds(thread', n) /\ WrapperCalls(fx'.log, n) = 0
    /\ fx'.op = "unsubscribe" =>
            LET n == fx'.log[1].n IN
            /\ ~Holds(thread', n)
            /\ raf' = raf
            /\ IF Holds(thread, n)
               THEN /\ Len(thread'.events[wrappers[n].event])
                            = Len(thread.events[wrappers[n].event]) - 1
                    /\ \A k \in ThreadEventNames \ {wrappers[n].event} :
                            thread'.events[k] = thread.events[k]
               ELSE thread' = thread

\* C27: a listener registered with Once is called at most once over any sequence of
\* dispatches of its event, also those started from inside the listener, and is out of
\* the registry once its first call has returned; the function Once returned removes it
\* when it has not been called yet and changes nothing afterwards.
C27_OnceFiresOnce == [](C27_State) /\ [][C27_Step]_vars

\* arr without the first of its entries that is l.
WithoutFirst(arr, l) ==
    IF \E i \in DOMAIN arr : arr[i] = l
    THEN LET i == CHOOSE k \in DOMAIN arr : arr[k] = l /\ \A j \in 1..(k - 1) : arr[j] # l
         IN  SubSeq(arr, 1, i - 1) \o SubSeq(arr, i + 1, Len(arr))
    ELSE arr

\* Nothing of the thread but its registry changes, and no frame callback is requested
\* or cancelled.
OnlyRegistry == [thread' EXCEPT !.events = thread.events] = thread /\ raf' = raf

C28_Step ==
    /\ fx'.op = "RemoveEventListener" =>
            \A event \in ThreadEventNames, cb \in Callbacks :
                RemoveEventListener(event, cb) =>
                    /\ thread'.events[event]
                            = WithoutFirst(thread.events[event], Listener(cb, 0))
                    /\ \A k \in ThreadEventNames \ {event} :
                            thread'.events[k] = thread.events[k]
                    /\ OnlyRegistry
    /\ fx'.op = "ClearEventListeners" =>
            /\ \A event \in ThreadEventNames :
                    ClearEventListeners(<<event>>) =>
                        /\ thread'.events[event] = <<>>
                        /\ \A k \in ThreadEventNames \ {event} :
                                thread'.events[k] = thread.events[k]
                        /\ OnlyRegistry
            /\ ClearEventListeners(<<>>) =>
                        /\ \A k \in ThreadEventNames : thread'.events[k] = <<>>
                        /\ OnlyRegistry

\* C28: RemoveEventListener(event, cb) removes at most one registration of cb, the
\* first, from that event's list, keeps the order of the others and does nothing when
\* cb is not registered; ClearEventListeners(event) empties only that event's list and
\* ClearEventListeners() all four; none of them changes isActive, the timing state or
\* the pending frame callback.
C28_RemovalTouchesOnlyItsTarget == [][C28_Step]_vars

\* The thread of SpecRegistry, active with a frame callback pending, after
\* RemoveEventListener("update", "log"): the second of the four "update" listeners is
\* gone and the other three are in their order.  Every registration that SpecRegistry
\* removes is still there, so the call that led here found its callback and removed it.
C28_Witness ==
    /\ fx.op = "RemoveEventListener"
    /\ thread.events.update
            = <<Listener("halt", 0), Listener("halt", 0), Listener("log", 0)>>
    /\ thread.events.start = <<Listener("log", 0), Listener("log", 0)>>
    /\ thread.events.idle = <<Listener("log", 0)>>
    /\ thread.events.stop = <<Listener("log", 1), Listener("log", 0)>>
    /\ thread.isActive
    /\ raf.pending # {}

\* deltaTime, frameRate, the timestamps and the window.
Timing(t) ==
    <<t.deltaTime, t.frameRate, t.currentRegisteredTimestamp, t.lastRegisteredTimestamp,
      t.startTimestamp, t.times>>

C30_State ==
    \A i \in DOMAIN fx.log :
        (fx.log[i].e = "call" /\ fx.log[i].a = "update") => fx.log[i].isActive

C30_Step ==
    (~thread.isActive /\ fx'.op # "Start") =>
        /\ \A i \in DOMAIN fx'.log : fx'.log[i].e = "call" => fx'.log[i].a # "update"
        /\ Timing(thread') = Timing(thread)

\* C30: from the return of a Stop to the next Start no "update" listener is called and
\* deltaTime, frameRate, the timestamps and the window do not change, also when a frame
\* callback fires while Idle and when Stop is called from inside an "update" listener
\* before the other "update" listeners of that tick have run.
C30_NoUpdateAfterStop == [](C30_State) /\ [][C30_Step]_vars

----------------------------------------------------------------------------
\* WebGPURendererScene: the list changing under a suspended Prepare.

\* C29: whatever AddRenderable, RemoveRenderable and ClearRenderables did while Prepare
\* was suspended at an Initialize, when Prepare sets hasPrepared every Renderable in
\* the scene's list has completed Initialize, and Prepare never calls Initialize on a
\* missing (undefined) entry: it throws only when an Initialize threw.
C29_PrepareCoversTheList ==
    /\ (fx.op \in PrepareOps /\ Count(fx.log, "hasPrepared") = 1) =>
            \A i \in DOMAIN rendererables : init[rendererables[i]] = "done"
    /\ (fx.op \in PrepareOps /\ fx.ret = "throw") =>
            Count(fx.log, "rethrown") = 1

----------------------------------------------------------------------------
\* Thread: the frame callbacks pending.

\* C31: at any time at most one frame callback that the Thread asked for is pending, so
\* that one platform frame, which runs every pending callback, dispatches "update" at
\* most once, whatever Start and Stop calls were made, also from inside listeners.
C31_OnePendingCallback == Cardinality(raf.pending) <= 1

----------------------------------------------------------------------------
\* WebGPURenderer: the physical size follows the logical size and the ratio.

\* C32: on an initialized renderer the physical size on each axis is
\* max(1, floor(L * r)), with L the logical size the latest SetSize was given and r the
\* ratio stored now, after any SetSize and SetDevicePixelRatio calls, rejected ones
\* included.
C32_PhysicalSizeFollowsRatio ==
    (hasInitialized /\ logicalSize # <<>>) =>
        /\ size.width = Max(1, FloorTimes(logicalSize[1], size.devicePixelRatio))
        /\ size.height = Max(1, FloorTimes(logicalSize[2], size.devicePixelRatio))
        /\ size.canvasWidth = size.width
        /\ size.canvasHeight = size.height

----------------------------------------------------------------------------
\* Scene.Prepare: the sample count it hands to the Renderables.

\* C33: the sample count Prepare passes to every Renderable.Initialize is the effective
\* sample count, the one the renderer's depth and multisample targets are allocated
\* with, for every configured msaaSampleCount.
C33_PrepareSampleCountIsEffective ==
    \A i \in DOMAIN fx.log :
        fx.log[i].e = "initialize" =>
            /\ fx.log[i].sampleCount = EffectiveSampleCount
            /\ targets.depth # 0 =>
                    fx.log[i].sampleCount = textures[targets.depth].sampleCount

----------------------------------------------------------------------------
\* WebGPURenderer.Initialize: what hasInitialized stands for.

\* The render targets are those of the current size, on the current device.
TargetsBuilt ==
    /\ targets.depth \in LiveTextures
    /\ textures[targets.depth].dev = gpuDevice
    /\ textures[targets.depth].width = Max(1, size.width)
    /\ textures[targets.depth].height = Max(1, size.height)

\* C34: hasInitialized is true only if a device was acquired, the canvas context was
\* obtained and configured with that device, and the render targets were built for the
\* current size; an Initialize that cannot obtain the canvas context does not report the
\* renderer as initialized.
C34_InitializedMeansConfigured ==
    /\ hasInitialized =>
            /\ gpuDevice # 0
            /\ context = "ok"
            /\ contextDevice = gpuDevice
            /\ TargetsBuilt
    /\ (fx.op = "Initialize.device"
            /\ \E i \in DOMAIN fx.log : fx.log[i] = DebugError("WGPUR_CONTEXT_UNDEFINED")) =>
            fx.ret # "this"

----------------------------------------------------------------------------
\* WebGPURenderer.Dispose and the passes opened after it.

\* C35: no render pass that BeginFrame opens uses a depth or multisample view that is
\* absent or whose texture has been destroyed, after any SetSize, SetDevicePixelRatio,
\* Dispose and BeginFrame calls on an initialized renderer.
C35_PassUsesLiveTargets ==
    \A i \in DOMAIN fx.log :
        (hasInitialized /\ fx.log[i].e = "beginRenderPass") =>
            /\ fx.log[i].depth \in LiveTextures
            /\ fx.log[i].view # "undefined"
            /\ fx.log[i].view = "msaa" => fx.log[i].tex \in LiveTextures

----------------------------------------------------------------------------
\* Scene.Prepare: the device of the camera's binding.

\* C36: after Prepare(camera) has succeeded, the camera's uniform buffer, bind-group
\* layout and bind group are ones created on the renderer's current device, also for a
\* camera that was bound to another device before.
C36_PrepareBindsToCurrentDevice ==
    (fx.op \in PrepareOps /\ Count(fx.log, "hasPrepared") = 1) =>
        \A i \in DOMAIN fx.log :
            fx.log[i].e = "ensureBinding" =>
                /\ fx.log[i].n = gpuDevice
                /\ camBinding[fx.log[i].a] = gpuDevice
                /\ camBuffer[fx.log[i].a] = gpuDevice

----------------------------------------------------------------------------
\* WebGPURenderer.Render with a camera that was never bound.

\* C37: Render on a prepared scene with a camera that has no binding reports an error
\* and does nothing else: it opens no frame, sets no bind group, draws no Renderable and
\* submits nothing.
C37_RenderUnboundCameraIsNoOp ==
    fx.op = "Render" =>
        /\ \A i \in DOMAIN fx.log :
                fx.log[i].e = "setBindGroup" => camBinding[fx.log[i].a] # 0
        /\ (\E i \in DOMAIN fx.log : fx.log[i] = DebugError("CAM_UNIFORM_BUFFER_UNDEFINED")) =>
                /\ Count(fx.log, "error") = Len(fx.log)
                /\ fx.ret = "void"

----------------------------------------------------------------------------
\* Thread: the loop keeps going while the thread is Active.

\* A tick: a frame callback that ran while the thread was Active.
Ticked == fx.op = "loop" /\ Count(fx.log, "requestAnimationFrame") = 1

\* C38: while the Thread is Active a frame callback of it is pending after every call,
\* whatever the listeners did, so that on a platform that runs every pending callback
\* an Active thread ticks again unless it is stopped (here: while the window still
\* takes requests).
C38_ActiveThreadKeepsTicking ==
    /\ [](thread.isActive => thread.animationFrame \in raf.pending)
    /\ \A n \in 0..(MaxFrameRequests - 1) :
            (thread.isActive /\ raf.requested = n)
                ~> (~thread.isActive \/ (Ticked /\ raf.requested > n))

----------------------------------------------------------------------------
\* PerspectiveCamera: the clipping planes.

\* C39: a PerspectiveCamera constructed with 0 < near < far keeps 0 < near < far through
\* any SetNear and SetFar calls, in any order.
C39_PlanesStayOrdered ==
    \A c \in Cameras :
        /\ Less(Ratio(0, 1), pose[c].near)
        /\ Less(pose[c].near, pose[c].far)

----------------------------------------------------------------------------
\* Camera.SetPosition(x, y, z) and Camera.LookAt(x, y, z) with components left out.

\* The vector old with the components given, each component left out kept.
Supplied(old, x, y, z) == <<x, OrElse(y, old[2]), OrElse(z, old[3])>>

C40_Step ==
    \A c \in MovedCameras, x \in Coordinates, y \in MaybeCoordinates, z \in MaybeCoordinates :
        /\ (fx'.op = "SetPosition" /\ SetPositionXYZ(c, x, y, z)) =>
                vec'[pose[c].position] = Supplied(vec[pose[c].position], x, y, z)
        /\ (fx'.op = "LookAt" /\ LookAtXYZ(c, x, y, z)) =>
                vec'[pose[c].target] = Supplied(vec[pose[c].target], x, y, z)

\* C40: SetPosition(x, y, z) and LookAt(x, y, z) with a numeric x and with y and/or z
\* left out change only the components supplied: each component left out of position
\* (or target) keeps the value it had before the call.
C40_OmittedComponentsAreKept == [][C40_Step]_vars


====
